---- MODULE Spec2Model ----
(***************************************************************************)
(* Catalog query and fan-out merge engine of the skillcred storefront:     *)
(* the free-text filter parser (utils/nlp), the provider adapters          *)
(* (Shopify, FakeStore, Amazon, Flipkart) and CatalogService.              *)
(*                                                                         *)
(* Text is modelled by TLA+ strings (Len, \o and SubSeq act on them as on  *)
(* JavaScript strings); prices are integers in hundredths of the currency  *)
(* unit, so 79.99 is 7999.  An object with optional fields is a function   *)
(* whose DOMAIN holds exactly the fields that are present.                 *)
(***************************************************************************)
EXTENDS Integers, Sequences, FiniteSets, TLC

VARIABLES
  input,        \* nlp: the argument of parseFiltersFromText
  parsed,       \* nlp: <<>> before the call, <<ParsedFilters>> after it
  endpoints,    \* which of the three endpoint constants are non-empty
  pc,           \* CatalogService: "idle", "awaiting" or "resolved"
  op,           \* CatalogService: "none", "search" or "topProducts"
  filters,      \* CatalogService: the filters argument of the round
  limit,        \* CatalogService: the limit argument of the round
  calls,        \* per provider: the state of its entry in Promise.all
  requests,     \* the HTTP requests issued so far in the round
  settled,      \* the providers in the order in which their calls settled
  result,       \* the list CatalogService resolved with
  outfitProducts, \* outfits: the products argument of suggestOutfits
  maxBudget,    \* outfits: <<>> when the budget is omitted, else <<budget>>
  outfits,      \* outfits: <<>> before the call, <<suggestions>> after it
  totalInr,     \* pricing: the cart total
  windowInr,    \* pricing: <<>> when the window is omitted, else <<window>>
  nudge,        \* pricing: <<>> before the calls, <<[delta, close]>> after
  inputMessage, \* Chat: the text in the input field
  isLoading,    \* Chat: a message is being handled
  messages,     \* Chat: the conversation, oldest first
  chatPc,       \* Chat: where handleSendMessage stands
  handler,      \* Chat: the branch that took the message in hand
  sent,         \* Chat: the message being handled
  cart,         \* Chat: the cart, [items, total]
  searchQuery,  \* Products: the query in the search field
  pageProducts, \* Products: the loaded product list
  filteredProducts, \* Products: the displayed product list
  inFlight,     \* Products: the catalog searches awaiting their answer
  latest,       \* Products: the most recently issued search
  loading       \* Products: loadProducts has not settled yet

nlpVars == <<input, parsed>>
catalogVars == <<endpoints, pc, op, filters, limit, calls, requests, settled, result>>
outfitVars == <<outfitProducts, maxBudget, outfits>>
pricingVars == <<totalInr, windowInr, nudge>>
chatVars == <<inputMessage, isLoading, messages, chatPc, handler, sent, cart>>
pageVars == <<searchQuery, pageProducts, filteredProducts, inFlight, latest, loading>>
vars ==
  <<input, parsed, endpoints, pc, op, filters, limit, calls, requests, settled, result,
    outfitProducts, maxBudget, outfits, totalInr, windowInr, nudge,
    inputMessage, isLoading, messages, chatPc, handler, sent, cart,
    searchQuery, pageProducts, filteredProducts, inFlight, latest, loading>>

(***************************************************************************)
(* Bounds of the model.                                                    *)
(***************************************************************************)
MaxWords == 3
MaxLimit == 3
MaxColors == 2
LengthSlack == 3
MaxKeywords == 2
MaxSent == 2
MaxSearches == 3

(***************************************************************************)
(* JavaScript string primitives.                                           *)
(***************************************************************************)
Has(obj, k) == k \in DOMAIN obj

Char(s, i) == SubSeq(s, i, i)

UpperChars == "ABCDEFGHIJKLMNOPQRSTUVWXYZ"
LowerChars == "abcdefghijklmnopqrstuvwxyz"
DigitChars == "0123456789"

IsSpace(c) == c \in {" ", "\t", "\n"}

IsDigit(c) == \E i \in 1..10 : Char(DigitChars, i) = c

DigitValue(c) == (CHOOSE i \in 1..10 : Char(DigitChars, i) = c) - 1

LowerTable ==
  [c \in {Char(UpperChars, i) : i \in 1..26} |->
     Char(LowerChars, CHOOSE i \in 1..26 : Char(UpperChars, i) = c)]

ToLowerChar(c) == IF c \in DOMAIN LowerTable THEN LowerTable[c] ELSE c

\* String.prototype.toLowerCase, character by character (halving the string)
RECURSIVE ToLowerCase(_)
ToLowerCase(s) ==
  IF Len(s) = 0 THEN ""
  ELSE IF Len(s) = 1 THEN ToLowerChar(s)
  ELSE ToLowerCase(SubSeq(s, 1, Len(s) \div 2)) \o ToLowerCase(SubSeq(s, Len(s) \div 2 + 1, Len(s)))

Includes(s, t) == \E i \in 0..(Len(s) - Len(t)) : SubSeq(s, i + 1, i + Len(t)) = t

StartsWithAt(s, i, t) == i + Len(t) - 1 <= Len(s) /\ SubSeq(s, i, i + Len(t) - 1) = t

RECURSIVE TrimStart(_)
TrimStart(s) ==
  IF s # "" /\ IsSpace(Char(s, 1)) THEN TrimStart(SubSeq(s, 2, Len(s))) ELSE s

RECURSIVE TrimEnd(_)
TrimEnd(s) ==
  IF s # "" /\ IsSpace(Char(s, Len(s))) THEN TrimEnd(SubSeq(s, 1, Len(s) - 1)) ELSE s

Trim(s) == TrimEnd(TrimStart(s))

RECURSIVE Join(_, _)
Join(parts, sep) ==
  IF parts = <<>> THEN ""
  ELSE IF Len(parts) = 1 THEN parts[1]
  ELSE parts[1] \o sep \o Join(Tail(parts), sep)

RECURSIVE ParseInt(_, _)
ParseInt(s, acc) ==
  IF s = "" THEN acc
  ELSE ParseInt(SubSeq(s, 2, Len(s)), 10 * acc + DigitValue(Char(s, 1)))

RECURSIVE NatToString(_)
NatToString(n) ==
  IF n < 10 THEN Char(DigitChars, n + 1)
  ELSE NatToString(n \div 10) \o Char(DigitChars, (n % 10) + 1)

\* \s* : the index of the first character at or after i that is not white space
RECURSIVE SkipSpaces(_, _)
SkipSpaces(s, i) ==
  IF i <= Len(s) /\ IsSpace(Char(s, i)) THEN SkipSpaces(s, i + 1) ELSE i

\* String.prototype.split(/\s+/)
RECURSIVE SplitFrom(_, _, _)
SplitFrom(s, i, cur) ==
  IF i > Len(s) THEN <<cur>>
  ELSE IF IsSpace(Char(s, i)) THEN <<cur>> \o SplitFrom(s, SkipSpaces(s, i), "")
  ELSE SplitFrom(s, i + 1, cur \o Char(s, i))

SplitSpaces(s) == SplitFrom(s, 1, "")

Truthy(obj, k) == Has(obj, k) /\ obj[k] # ""

OrElse(obj, k, default) == IF Truthy(obj, k) THEN obj[k] ELSE default

RECURSIVE Flat(_)
Flat(lists) == IF lists = <<>> THEN <<>> ELSE Head(lists) \o Flat(Tail(lists))

Slice(seq, n) == SubSeq(seq, 1, IF n < Len(seq) THEN n ELSE Len(seq))

(***************************************************************************)
(* utils/nlp: parseFiltersFromText.                                        *)
(***************************************************************************)
\* the list with red scanned before blue
colorsRedFirst ==
  <<"black", "white", "red", "blue", "green", "yellow", "brown", "gray", "grey",
    "purple", "pink", "beige", "navy">>

knownColors ==
  <<"black", "white", "blue", "red", "green", "yellow", "brown", "gray", "grey",
    "purple", "pink", "beige", "navy">>

typeSynonyms ==
  << <<"t-shirt", <<"tshirt", "tee", "t-shirt", "shirt", "top">> >>,
     <<"hoodie", <<"hoodie", "sweatshirt">> >>,
     <<"jeans", <<"jeans", "denim", "trousers", "pants">> >>,
     <<"shoes", <<"shoes", "sneakers", "footwear", "trainers">> >>,
     <<"bag", <<"bag", "backpack", "purse", "handbag">> >>,
     <<"laptop", <<"laptop", "notebook", "ultrabook", "macbook", "gaming laptop">> >> >>

residualWords == <<"t-shirt", "shirt", "hoodie", "jeans", "shoes", "bag">>

priceKeywords == <<"under", "below", "less than", "<">>

MinDigits == 2
MaxDigits == 6
MaxFallbackLength == 80

\* the number of digits at the front of s[i..], the greedy extent of \d{..}
RECURSIVE DigitRun(_, _)
DigitRun(s, i) ==
  IF i <= Len(s) /\ IsDigit(Char(s, i)) THEN 1 + DigitRun(s, i + 1) ELSE 0

\* the pattern with \d{1,6} in place of \d{2,6}
CaptureOneDigit(s, i) ==
  LET n == DigitRun(s, i)
      m == IF n > MaxDigits THEN MaxDigits ELSE n
  IN  IF n >= 1 THEN <<SubSeq(s, i, i + m - 1)>> ELSE <<>>

\* (\d{2,6}) tried at index i: <<capture>> or <<>>
CaptureDigits(s, i) ==
  LET n == DigitRun(s, i)
      m == IF n > MaxDigits THEN MaxDigits ELSE n
  IN  IF n >= MinDigits THEN <<SubSeq(s, i, i + m - 1)>> ELSE <<>>

\* \s*₹?\s*(\d{2,6}) tried at index i; when ₹ is taken and no digits follow,
\* the engine backtracks to ₹ matching nothing, which then fails on the ₹
AfterKeyword(s, i) ==
  LET a == SkipSpaces(s, i)
  IN  IF a <= Len(s) /\ Char(s, a) = "₹"
        THEN CaptureDigits(s, SkipSpaces(s, a + 1))
        ELSE CaptureDigits(s, a)

\* the whole pattern tried at index i, first alternative before the second
RECURSIVE KeywordAt(_, _, _)
KeywordAt(s, i, k) ==
  IF k > Len(priceKeywords) THEN <<>>
  ELSE IF StartsWithAt(s, i, priceKeywords[k])
            /\ AfterKeyword(s, i + Len(priceKeywords[k])) # <<>>
         THEN AfterKeyword(s, i + Len(priceKeywords[k]))
         ELSE KeywordAt(s, i, k + 1)

PriceAt(s, i) ==
  IF KeywordAt(s, i, 1) # <<>> THEN KeywordAt(s, i, 1)
  ELSE IF StartsWithAt(s, i, "₹") THEN CaptureDigits(s, SkipSpaces(s, i + 1))
  ELSE <<>>

\* String.prototype.match without the g flag: the leftmost match
RECURSIVE PriceMatchFrom(_, _)
PriceMatchFrom(s, i) ==
  IF i > Len(s) THEN <<>>
  ELSE IF PriceAt(s, i) # <<>> THEN PriceAt(s, i)
  ELSE PriceMatchFrom(s, i + 1)

PriceMatch(s) == PriceMatchFrom(s, 1)

\* the colour word that starts earliest in the text, whatever its place in the list
EarliestColor(text, k) ==
  LET starts(i) == {c \in k..Len(knownColors) : StartsWithAt(text, i, knownColors[c])}
      hits == {i \in 1..Len(text) : starts(i) # {}}
  IN  IF hits = {} THEN <<>>
      ELSE LET first == CHOOSE i \in hits : \A j \in hits : i <= j
           IN  <<knownColors[CHOOSE c \in starts(first) : TRUE]>>

RECURSIVE FirstColor(_, _)
FirstColor(text, k) ==
  IF k > Len(knownColors) THEN <<>>
  ELSE IF Includes(text, knownColors[k]) THEN <<knownColors[k]>>
  ELSE FirstColor(text, k + 1)

\* the canonical types scanned in alphabetical order
FirstTypeAlphabetical(text, k) ==
  LET alphabetical == <<5, 2, 3, 6, 4, 1>>
      hits == {n \in k..Len(alphabetical) :
                 \E j \in 1..Len(typeSynonyms[alphabetical[n]][2]) :
                   Includes(text, typeSynonyms[alphabetical[n]][2][j])}
  IN  IF hits = {} THEN <<>>
      ELSE <<typeSynonyms[alphabetical[CHOOSE n \in hits : \A m \in hits : n <= m]][1]>>

RECURSIVE FirstType(_, _)
FirstType(text, k) ==
  IF k > Len(typeSynonyms) THEN <<>>
  ELSE IF \E j \in 1..Len(typeSynonyms[k][2]) : Includes(text, typeSynonyms[k][2][j])
         THEN <<typeSynonyms[k][1]>>
  ELSE FirstType(text, k + 1)

\* 'formal' pushed once for formal and once more for office
StyleTagsPerKeyword(text) ==
  (IF Includes(text, "oversized") THEN <<"oversized">> ELSE <<>>)
  \o (IF Includes(text, "slim") THEN <<"slim">> ELSE <<>>)
  \o (IF Includes(text, "casual") THEN <<"casual">> ELSE <<>>)
  \o (IF Includes(text, "formal") THEN <<"formal">> ELSE <<>>)
  \o (IF Includes(text, "office") THEN <<"formal">> ELSE <<>>)

StyleTags(text) ==
  (IF Includes(text, "oversized") THEN <<"oversized">> ELSE <<>>)
  \o (IF Includes(text, "slim") THEN <<"slim">> ELSE <<>>)
  \o (IF Includes(text, "casual") THEN <<"casual">> ELSE <<>>)
  \o (IF Includes(text, "formal") \/ Includes(text, "office") THEN <<"formal">> ELSE <<>>)

Field(k, opt) == IF opt = <<>> THEN <<>> ELSE (k :> opt[1])

\* the fallback taken only below the length limit, not at it
FreeTextBelowLimit(in, text, productType) ==
  LET LitIn(t) == Includes(text, t)
      residualTerms == IF productType = <<>> THEN SelectSeq(residualWords, LitIn) ELSE <<>>
      residual == IF Len(residualTerms) > 0 THEN <<Join(residualTerms, " ")>> ELSE <<>>
      minimal == Trim(in)
  IN  IF residual # <<>> /\ residual[1] # "" THEN residual
      ELSE IF productType = <<>> /\ Len(minimal) < MaxFallbackLength THEN <<minimal>>
      ELSE residual

\* the residual terms collected whether or not a product type was matched
FreeTextResidualAlways(in, text, productType) ==
  LET LitIn(t) == Includes(text, t)
      residualTerms == SelectSeq(residualWords, LitIn)
      residual == IF Len(residualTerms) > 0 THEN <<Join(residualTerms, " ")>> ELSE <<>>
      minimal == Trim(in)
  IN  IF residual # <<>> /\ residual[1] # "" THEN residual
      ELSE IF productType = <<>> /\ Len(minimal) <= MaxFallbackLength THEN <<minimal>>
      ELSE residual

\* filters.text: the residual terms, else the raw trimmed input when short
FreeText(in, text, productType) ==
  LET LitIn(t) == Includes(text, t)
      residualTerms == IF productType = <<>> THEN SelectSeq(residualWords, LitIn) ELSE <<>>
      residual == IF Len(residualTerms) > 0 THEN <<Join(residualTerms, " ")>> ELSE <<>>
      minimal == Trim(in)
  IN  IF residual # <<>> /\ residual[1] # "" THEN residual
      ELSE IF productType = <<>> /\ Len(minimal) <= MaxFallbackLength THEN <<minimal>>
      ELSE residual

parseFiltersFromText(in) ==
  LET text == ToLowerCase(in)
      priceMatch == PriceMatch(text)
      price == IF priceMatch = <<>> THEN <<>> ELSE <<ParseInt(priceMatch[1], 0)>>
      color == FirstColor(text, 1)
      productType == FirstType(text, 1)
  IN  [tags |-> StyleTags(text)]
        @@ Field("maxPrice", price) @@ Field("color", color)
        @@ Field("productType", productType)
        @@ Field("text", FreeText(in, text, productType))

(***************************************************************************)
(* The catalog sources.  What a source answers is outside the program: the *)
(* stores below are the data they hold in this model.                      *)
(***************************************************************************)
PriceScale == 100

ShopifyNodes ==
  << [id |-> "gid://shopify/Product/6", title |-> "Denim Jeans", description |-> "Classic blue denim",
      amount |-> 7999, productType |-> "Clothing", tags |-> <<"denim", "blue">>],
     [id |-> "gid://shopify/Product/9", title |-> "Sneakers", description |-> "",
      amount |-> 8999, productType |-> ""],
     [id |-> "gid://shopify/Product/60", title |-> "denim jeans", description |-> "Slim fit",
      amount |-> 7999, productType |-> "Clothing", tags |-> <<>>] >>

\* the orders in which the storefront may list its nodes
ShopifyListings == {ShopifyNodes, <<ShopifyNodes[3], ShopifyNodes[2]>>}

FakeStoreItems ==
  << [id |-> 1, title |-> "DENIM JEANS", description |-> "Womens slim denim", price |-> 7999,
      category |-> "women's clothing", image |-> "img1"],
     [id |-> 2, title |-> "Mens Cotton Jacket", description |-> "Great outerwear jeans jacket",
      price |-> 5599, category |-> "men's clothing"],
     [id |-> 3, title |-> "Sneakers", price |-> 8999, category |-> ""] >>

\* a marketplace price is a number, [number |-> n], or an object with an amount
AmazonItems ==
  << [asin |-> "B001", title |-> "Sneakers", price |-> [number |-> 8999], tags |-> <<"shoes">>],
     [id |-> "77", name |-> "Echo Dot", price |-> [amount |-> 4999], category |-> "Devices"],
     [sku |-> "S9", title |-> "Denim Jeans", description |-> "Amazon denim"] >>

FlipkartItems ==
  << [id |-> "F1", title |-> "sneakers", price |-> [number |-> 8999]],
     [sku |-> "F2", name |-> "Denim Jeans", price |-> [amount |-> 7999], tags |-> <<"denim">>] >>

(***************************************************************************)
(* services/shopifyService: the primary adapter.                           *)
(***************************************************************************)
getMockProducts ==
  << [id |-> "gid://shopify/Product/1",
      title |-> "Premium Cotton T-Shirt",
      description |->
        "Comfortable, breathable cotton t-shirt perfect for everyday wear. Available in multiple colors and sizes.",
      price |-> 2999,
      category |-> "Clothing",
      tags |-> <<"cotton", "casual", "comfortable", "t-shirt", "shirt">>],
     [id |-> "gid://shopify/Product/11",
      title |-> "14\" Lightweight Laptop",
      description |->
        "Portable notebook with 8GB RAM, 256GB SSD, ideal for students and work.",
      price |-> 4999900,
      category |-> "Electronics",
      tags |-> <<"laptop", "notebook", "computer", "portable">>],
     [id |-> "gid://shopify/Product/12",
      title |-> "Gaming Laptop 15\"",
      description |->
        "High-performance gaming laptop with dedicated GPU and fast refresh display.",
      price |-> 8999900,
      category |-> "Electronics",
      tags |-> <<"laptop", "gaming", "computer">>],
     [id |-> "gid://shopify/Product/2",
      title |-> "Wireless Bluetooth Headphones",
      description |->
        "High-quality wireless headphones with noise cancellation and long battery life.",
      price |-> 8999,
      category |-> "Electronics",
      tags |-> <<"wireless", "bluetooth", "noise-cancelling", "headphones", "audio">>],
     [id |-> "gid://shopify/Product/3",
      title |-> "Leather Crossbody Bag",
      description |->
        "Stylish and practical leather crossbody bag with multiple compartments.",
      price |-> 5999,
      category |-> "Accessories",
      tags |-> <<"leather", "crossbody", "stylish", "bag", "purse">>],
     [id |-> "gid://shopify/Product/4",
      title |-> "Smart Fitness Watch",
      description |->
        "Track your fitness goals with this advanced smartwatch featuring heart rate monitoring and GPS.",
      price |-> 19999,
      category |-> "Electronics",
      tags |-> <<"fitness", "smartwatch", "health", "watch", "tracker">>],
     [id |-> "gid://shopify/Product/5",
      title |-> "Organic Cotton Hoodie",
      description |->
        "Warm and cozy organic cotton hoodie perfect for cooler weather.",
      price |-> 4999,
      category |-> "Clothing",
      tags |-> <<"organic", "cotton", "hoodie", "warm", "sweatshirt">>],
     [id |-> "gid://shopify/Product/6",
      title |-> "Denim Jeans",
      description |->
        "Classic blue denim jeans with perfect fit and durability.",
      price |-> 7999,
      category |-> "Clothing",
      tags |-> <<"denim", "jeans", "blue", "casual", "pants">>],
     [id |-> "gid://shopify/Product/7",
      title |-> "Laptop Backpack",
      description |->
        "Spacious laptop backpack with multiple compartments and comfortable straps.",
      price |-> 6999,
      category |-> "Accessories",
      tags |-> <<"backpack", "laptop", "bag", "school", "work">>],
     [id |-> "gid://shopify/Product/8",
      title |-> "Wireless Mouse",
      description |->
        "Ergonomic wireless mouse with precision tracking and long battery life.",
      price |-> 3499,
      category |-> "Electronics",
      tags |-> <<"wireless", "mouse", "computer", "ergonomic", "gaming">>],
     [id |-> "gid://shopify/Product/9",
      title |-> "Sneakers",
      description |->
        "Comfortable and stylish sneakers perfect for everyday wear and light exercise.",
      price |-> 8999,
      category |-> "Footwear",
      tags |-> <<"sneakers", "shoes", "comfortable", "casual", "athletic">>],
     [id |-> "gid://shopify/Product/10",
      title |-> "Sunglasses",
      description |->
        "Trendy sunglasses with UV protection and modern frame design.",
      price |-> 12999,
      category |-> "Accessories",
      tags |-> <<"sunglasses", "eyewear", "fashion", "uv-protection", "trendy">>] >>

\* the product a storefront node is mapped to (getProducts, searchWithFilters)
mapNodeToProduct(node) ==
  [id |-> node.id,
   title |-> node.title,
   description |-> OrElse(node, "description", ""),
   price |-> node.amount,
   category |-> OrElse(node, "productType", "General"),
   tags |-> IF Has(node, "tags") THEN node.tags ELSE <<>>]

buildQueryFromFilters(f) ==
  LET textPart ==
        IF Has(f, "text") /\ Len(Trim(f.text)) > 0
          THEN <<Join(SplitSpaces(Trim(f.text)), " ")>> ELSE <<>>
      typePart ==
        IF Truthy(f, "productType") THEN <<"product_type:'" \o f.productType \o "'">> ELSE <<>>
      colorPart == IF Truthy(f, "color") THEN <<"tag:'" \o f.color \o "'">> ELSE <<>>
      tagParts ==
        IF Has(f, "tags") /\ Len(f.tags) > 0
          THEN [i \in 1..Len(f.tags) |-> "tag:'" \o f.tags[i] \o "'"] ELSE <<>>
      pricePart ==
        IF Has(f, "maxPrice") THEN <<"variants.price:<" \o NatToString(f.maxPrice)>> ELSE <<>>
  IN  Join(textPart \o typePart \o colorPart \o tagParts \o pricePart, " AND ")

\* searchWithFilters without the fallback to getProducts
shopifyAlwaysSearch(f, n) ==
  [to |-> "shopify", query |-> "searchProducts", first |-> n, q |-> buildQueryFromFilters(f)]

\* the request searchWithFilters posts: the listing query of getProducts when
\* the query string is empty, the search query otherwise
shopifySearchRequest(f, n) ==
  LET queryString == buildQueryFromFilters(f)
  IN  IF queryString = "" \/ Len(Trim(queryString)) = 0
        THEN [to |-> "shopify", query |-> "getProducts", first |-> n]
        ELSE [to |-> "shopify", query |-> "searchProducts", first |-> n, q |-> queryString]

shopifyListRequest(n) == [to |-> "shopify", query |-> "getProducts", first |-> n]

\* the catch block of searchWithFilters: the mock catalog, filtered locally
mockFallback(f) ==
  LET Match(p) ==
        LET lowerTags == [i \in 1..Len(p.tags) |-> ToLowerCase(p.tags[i])]
            TagSet == {lowerTags[i] : i \in 1..Len(lowerTags)}
            withinPrice == IF Has(f, "maxPrice") THEN p.price <= f.maxPrice * PriceScale ELSE TRUE
            matchColor == IF Truthy(f, "color") THEN ToLowerCase(f.color) \in TagSet ELSE TRUE
            matchType ==
              IF Truthy(f, "productType")
                THEN LET t == ToLowerCase(f.productType)
                     IN  \/ Includes(ToLowerCase(p.category), t)
                         \/ \E tag \in TagSet : Includes(tag, t)
                         \/ Includes(ToLowerCase(p.title), t)
                         \/ Includes(ToLowerCase(p.description), t)
                ELSE TRUE
            matchTags ==
              IF Has(f, "tags") /\ Len(f.tags) > 0
                THEN \A i \in 1..Len(f.tags) : ToLowerCase(f.tags[i]) \in TagSet
                ELSE TRUE
            matchText ==
              IF Truthy(f, "text")
                THEN LET toks == SplitSpaces(ToLowerCase(f.text))
                         hay == ToLowerCase(p.title \o " " \o p.description \o " " \o p.category
                                              \o " " \o Join(p.tags, " "))
                     IN  \A i \in 1..Len(toks) : Includes(hay, toks[i])
                ELSE TRUE
        IN  withinPrice /\ matchColor /\ matchType /\ matchTags /\ matchText
  IN  SelectSeq(getMockProducts, Match)

\* what the promise of getProducts / searchWithFilters is fulfilled with, given
\* the request it posted and the answer of the storefront
shopifyResult(f, request, response) ==
  IF response.kind = "ok" THEN [i \in 1..Len(response.edges) |-> mapNodeToProduct(response.edges[i])]
  ELSE IF request.query = "getProducts" THEN <<>>
  ELSE mockFallback(f)

(***************************************************************************)
(* services/providers/fakeStoreProvider.                                   *)
(***************************************************************************)
normalizeCategory(in) ==
  IF in = "" THEN ""
  ELSE LET t == ToLowerCase(in)
       IN  IF Includes(t, "jewel") THEN "jewelery"
           ELSE IF Includes(t, "elect") THEN "electronics"
           ELSE IF Includes(t, "men") THEN "men's clothing"
           ELSE IF Includes(t, "women") THEN "women's clothing"
           ELSE ""

\* mapItemToProduct without the vendor tag
mapItemUntagged(item) ==
  [id |-> "fakestore:" \o NatToString(item.id),
   title |-> item.title,
   description |-> OrElse(item, "description", ""),
   price |-> IF Has(item, "price") THEN item.price ELSE 0,
   category |-> OrElse(item, "category", "General"),
   tags |-> IF Truthy(item, "category") THEN <<item.category>> ELSE <<>>]

mapItemToProduct(item) ==
  [id |-> "fakestore:" \o NatToString(item.id),
   title |-> item.title,
   description |-> OrElse(item, "description", ""),
   price |-> IF Has(item, "price") THEN item.price ELSE 0,
   category |-> OrElse(item, "category", "General"),
   tags |-> <<"vendor:fakestore">> \o (IF Truthy(item, "category") THEN <<item.category>> ELSE <<>>)]

fakeStoreRequest(f) ==
  LET cat == normalizeCategory(IF Truthy(f, "productType") THEN f.productType
                               ELSE IF Truthy(f, "text") THEN f.text ELSE "")
  IN  IF cat # "" THEN [to |-> "fakestore", url |-> "/products/category/" \o cat]
      ELSE [to |-> "fakestore", url |-> "/products"]

\* fakeStoreSearch with the text test alone as client filter
fakeStoreResultAnyPrice(f, n, response) ==
  IF response.kind = "ok"
    THEN LET products == [i \in 1..Len(response.items) |-> mapItemToProduct(response.items[i])]
             q == ToLowerCase(Trim(IF Truthy(f, "text") THEN f.text ELSE ""))
             Keep(p) ==
               LET hay == ToLowerCase(p.title \o " " \o p.description \o " " \o p.category)
                   toks == SplitSpaces(q)
               IN  IF q # "" THEN \A i \in 1..Len(toks) : Includes(hay, toks[i]) ELSE TRUE
         IN  Slice(SelectSeq(products, Keep), n)
    ELSE <<>>

fakeStoreResult(f, n, response) ==
  IF response.kind = "ok"
    THEN LET products == [i \in 1..Len(response.items) |-> mapItemToProduct(response.items[i])]
             q == ToLowerCase(Trim(IF Truthy(f, "text") THEN f.text ELSE ""))
             Keep(p) ==
               LET withinPrice ==
                     IF Has(f, "maxPrice") THEN p.price <= f.maxPrice * PriceScale ELSE TRUE
                   hay == ToLowerCase(p.title \o " " \o p.description \o " " \o p.category)
                   toks == SplitSpaces(q)
                   matchText == IF q # "" THEN \A i \in 1..Len(toks) : Includes(hay, toks[i]) ELSE TRUE
               IN  withinPrice /\ matchText
         IN  Slice(SelectSeq(products, Keep), n)
    ELSE <<>>

(***************************************************************************)
(* services/providers/amazonProvider and flipkartProvider.                 *)
(***************************************************************************)
buildQuery(f) ==
  Join((IF Truthy(f, "text") THEN <<f.text>> ELSE <<>>)
       \o (IF Truthy(f, "productType") THEN <<f.productType>> ELSE <<>>)
       \o (IF Truthy(f, "color") THEN <<f.color>> ELSE <<>>)
       \o (IF Has(f, "tags") /\ Len(f.tags) > 0 THEN f.tags ELSE <<>>), " ")

\* typeof item.price === 'number' ? item.price : parseFloat(item.price?.amount ?? '0')
marketplacePrice(item) ==
  IF ~Has(item, "price") THEN 0
  ELSE IF Has(item.price, "number") THEN item.price.number
  ELSE IF Has(item.price, "amount") THEN item.price.amount
  ELSE 0

marketplaceKey(item) ==
  IF Has(item, "asin") THEN item.asin ELSE IF Has(item, "id") THEN item.id ELSE item.sku

mapAmazonItemToProduct(item) ==
  [id |-> "amazon:" \o marketplaceKey(item),
   title |-> IF Truthy(item, "title") THEN item.title ELSE OrElse(item, "name", "Amazon Product"),
   description |-> OrElse(item, "description", ""),
   price |-> marketplacePrice(item),
   category |-> OrElse(item, "category", "Amazon"),
   tags |-> <<"vendor:amazon">> \o (IF Has(item, "tags") THEN item.tags ELSE <<>>)]

mapFlipkartItemToProduct(item) ==
  [id |-> "flipkart:" \o (IF Has(item, "id") THEN item.id ELSE item.sku),
   title |-> IF Truthy(item, "title") THEN item.title ELSE OrElse(item, "name", "Flipkart Product"),
   description |-> OrElse(item, "description", ""),
   price |-> marketplacePrice(item),
   category |-> OrElse(item, "category", "Flipkart"),
   tags |-> <<"vendor:flipkart">> \o (IF Has(item, "tags") THEN item.tags ELSE <<>>)]

marketplaceRequest(to, f, n) ==
  [to |-> to, q |-> buildQuery(f), limit |-> n]
    @@ (IF Has(f, "maxPrice") THEN ("maxPrice" :> f.maxPrice) ELSE <<>>)

\* amazonSearch / flipkartSearch once the request is answered; their own test
\* of the endpoint never fails, CatalogService calls them only when enabled
amazonResult(n, response) ==
  IF response.kind = "ok"
    THEN Slice([i \in 1..Len(response.items) |-> mapAmazonItemToProduct(response.items[i])], n)
    ELSE <<>>

flipkartResult(n, response) ==
  IF response.kind = "ok"
    THEN Slice([i \in 1..Len(response.items) |-> mapFlipkartItemToProduct(response.items[i])], n)
    ELSE <<>>

(***************************************************************************)
(* services/catalogService: CatalogService.search and topProducts.         *)
(***************************************************************************)
Providers == <<"shopify", "fakestore", "amazon", "flipkart">>

ProviderSet == {Providers[i] : i \in 1..Len(Providers)}

EndpointNames == {"shopify", "amazon", "flipkart"}

\* the fan-out without the amazonEnabled() test
AmazonAlwaysCalled == TRUE

amazonEnabled == "amazon" \in endpoints

flipkartEnabled == "flipkart" \in endpoints

\* the half rounded down
Floor2(n) == n \div 2

Ceil2(n) == (n + 1) \div 2

\* the key without toLowerCase()
CaseSensitiveKey(p) == <<p.title, p.price>>

DedupeKey(p) == <<ToLowerCase(p.title), p.price>>

RECURSIVE DedupeLoop(_, _, _)
DedupeLoop(merged, seen, unique) ==
  IF merged = <<>> THEN unique
  ELSE LET key == DedupeKey(Head(merged))
       IN  IF key \notin seen
             THEN DedupeLoop(Tail(merged), seen \cup {key}, Append(unique, Head(merged)))
             ELSE DedupeLoop(Tail(merged), seen, unique)

\* a merge in completion order
CompletionOrder(order) == order

\* the order in which the settled values are concatenated: the positions of
\* the promises in the array handed to Promise.all
MergeOrder(order) == Providers

\* the merge without slice(0, limit)
MergeResultsUntruncated(cs, order, n) ==
  LET results == [i \in 1..Len(Providers) |-> cs[Providers[i]].value]
  IN  DedupeLoop(Flat(results), {}, <<>>)

MergeResults(cs, order, n) ==
  LET results == [i \in 1..Len(MergeOrder(order)) |-> cs[MergeOrder(order)[i]].value]
      merged == Flat(results)
  IN  Slice(DedupeLoop(merged, {}, <<>>), n)

NoRequest == [to |-> "nobody"]

Pending(request, f, n) ==
  [state |-> "pending", called |-> TRUE, request |-> request, filters |-> f, limit |-> n,
   response |-> "none", value |-> <<>>]

\* Promise.resolve([]) in place of the call of a provider that is not enabled
ResolvedEmpty ==
  [state |-> "fulfilled", called |-> FALSE, request |-> NoRequest, filters |-> <<>>, limit |-> 0,
   response |-> "none", value |-> <<>>]

SecondaryCalls(f, n) ==
  [p \in ProviderSet \ {"shopify"} |->
     IF p = "fakestore" THEN Pending(fakeStoreRequest(f), f, Ceil2(n))
     ELSE IF p = "amazon"
       THEN (IF amazonEnabled THEN Pending(marketplaceRequest("amazon", f, Ceil2(n)), f, Ceil2(n))
             ELSE ResolvedEmpty)
     ELSE (IF flipkartEnabled THEN Pending(marketplaceRequest("flipkart", f, Ceil2(n)), f, Ceil2(n))
           ELSE ResolvedEmpty)]

IssuedRequests(cs) == {cs[p].request : p \in {q \in DOMAIN cs : cs[q].called}}

(***************************************************************************)
(* The arguments of a round: Chat passes parseFiltersFromText(query),       *)
(* Products passes { text: query }; the last three are a blank text, the   *)
(* filters of an over-long message that names a price, and a text with a   *)
(* price ceiling that some items of every source exceed.                   *)
(***************************************************************************)
SearchFilters ==
  { parseFiltersFromText("jeans under 800"),
    parseFiltersFromText("blue casual denim"),
    parseFiltersFromText("women"),
    parseFiltersFromText(" "),
    [text |-> "sneakers"],
    [text |-> "  "],
    [tags |-> <<>>, maxPrice |-> 500],
    [text |-> "jeans", maxPrice |-> 60] }

Limits == 0..MaxLimit

Search(f, n) ==
  /\ pc = "idle"
  /\ pc' = "awaiting"
  /\ op' = "search"
  /\ filters' = f
  /\ limit' = n
  /\ calls' = ("shopify" :> Pending(shopifySearchRequest(f, n), f, n)) @@ SecondaryCalls(f, n)
  /\ requests' = IssuedRequests(calls')
  /\ settled' = <<>>
  /\ result' = <<>>
  /\ UNCHANGED <<endpoints, nlpVars, outfitVars, pricingVars,
               chatVars, pageVars>>

TopProducts(n) ==
  /\ pc = "idle"
  /\ pc' = "awaiting"
  /\ op' = "topProducts"
  /\ filters' = <<>>
  /\ limit' = n
  /\ calls' = ("shopify" :> Pending(shopifyListRequest(n), <<>>, n)) @@ SecondaryCalls(<<>>, n)
  /\ requests' = IssuedRequests(calls')
  /\ settled' = <<>>
  /\ result' = <<>>
  /\ UNCHANGED <<endpoints, nlpVars, outfitVars, pricingVars,
               chatVars, pageVars>>

Failures == {[kind |-> "networkError"], [kind |-> "malformed"]}

\* what a source may answer to a request
Responses(request) ==
  Failures \cup
  (IF request.to = "shopify"
     THEN (IF "shopify" \in endpoints
             THEN {[kind |-> "ok", edges |-> Slice(l, request.first)] : l \in ShopifyListings}
             ELSE {})
   ELSE IF request.to = "fakestore"
     THEN {[kind |-> "ok",
            items |-> IF request.url = "/products" THEN FakeStoreItems
                      ELSE LET InCat(it) == "/products/category/" \o it.category = request.url
                           IN  SelectSeq(FakeStoreItems, InCat)]}
   ELSE IF request.to = "amazon" THEN {[kind |-> "ok", items |-> AmazonItems]}
   ELSE {[kind |-> "ok", items |-> FlipkartItems]})

AdapterResult(p, call, response) ==
  IF p = "shopify" THEN shopifyResult(call.filters, call.request, response)
  ELSE IF p = "fakestore" THEN fakeStoreResult(call.filters, call.limit, response)
  ELSE IF p = "amazon" THEN amazonResult(call.limit, response)
  ELSE flipkartResult(call.limit, response)

\* the request of provider p is answered and the promise of its adapter settles
Settle(p) ==
  /\ pc = "awaiting"
  /\ calls[p].state = "pending"
  /\ \E response \in Responses(calls[p].request) :
       calls' = [calls EXCEPT ![p] =
                   [@ EXCEPT !.state = "fulfilled", !.response = response.kind,
                             !.value = AdapterResult(p, calls[p], response)]]
  /\ settled' = Append(settled, p)
  /\ UNCHANGED <<endpoints, pc, op, filters, limit, requests, result, nlpVars, outfitVars,
               pricingVars,
               chatVars, pageVars>>

\* the await ends with the first call that settles
AnySettled(cs) == \E p \in ProviderSet : cs[p].called /\ cs[p].state = "fulfilled"

\* Promise.all of promises that never reject: fulfilled when all of them are
AllSettled(cs) == \A p \in ProviderSet : cs[p].state = "fulfilled"

\* await Promise.all([...]): the round goes on once every call has settled
AwaitAll ==
  /\ pc = "awaiting"
  /\ AllSettled(calls)
  /\ pc' = "resolved"

\* Promise.all is fulfilled: merge, dedupe, truncate, return
Resolve ==
  /\ AwaitAll
  /\ result' = MergeResults(calls, settled, limit)
  /\ UNCHANGED <<endpoints, op, filters, limit, calls, requests, settled, nlpVars,
               outfitVars, pricingVars,
               chatVars, pageVars>>

(***************************************************************************)
(* The inputs of the parser: every concatenation of at most MaxWords       *)
(* fragments.                                                              *)
(***************************************************************************)
Fragments ==
  {"jeans ", "under ", "UNDER", "below", "less than ", "less  than ", "<", "₹", " ",
   "800", "5", "1234567", "00", "500", "<50", " shoes", "red "}

RECURSIVE Concats(_)
Concats(n) ==
  IF n = 0 THEN {""}
  ELSE Concats(n - 1) \cup {s \o f : s \in Concats(n - 1), f \in Fragments}

ParserInputs == Concats(MaxWords)

NotParsed == <<>>

NlpIdle == input = "" /\ parsed = NotParsed

NotComposed == <<>>

OutfitIdle == outfitProducts = <<>> /\ maxBudget = <<>> /\ outfits = NotComposed

NotAsked == <<>>

PricingIdle == totalInr = 0 /\ windowInr = <<>> /\ nudge = NotAsked

\* the message the conversation opens with
Greeting == [role |-> "assistant", kind |-> "greeting"]

EmptyCart == [items |-> 0, total |-> 0]

ChatIdle ==
  /\ inputMessage = ""
  /\ isLoading = FALSE
  /\ messages = <<Greeting>>
  /\ chatPc = "idle"
  /\ handler = "none"
  /\ sent = ""
  /\ cart = EmptyCart

NoSearch == [id |-> 0, query |-> "", state |-> "none"]

PageIdle ==
  /\ searchQuery = ""
  /\ pageProducts = <<>>
  /\ filteredProducts = <<>>
  /\ inFlight = {}
  /\ latest = NoSearch
  /\ loading = FALSE

CatalogIdle ==
  /\ endpoints = {}
  /\ pc = "idle"
  /\ op = "none"
  /\ filters = [tags |-> <<>>]
  /\ limit = 0
  /\ calls = <<>>
  /\ requests = {}
  /\ settled = <<>>
  /\ result = <<>>

InitNlp ==
  /\ input \in ParserInputs
  /\ parsed = NotParsed
  /\ CatalogIdle
  /\ OutfitIdle
  /\ PricingIdle
  /\ ChatIdle
  /\ PageIdle

\* a caller (Chat.handleDiscoveryQuery, handleOutfitQuery) parses the message
Parse ==
  /\ parsed = NotParsed
  /\ parsed' = <<parseFiltersFromText(input)>>
  /\ UNCHANGED <<input, catalogVars, outfitVars, pricingVars,
               chatVars, pageVars>>

NextNlp == Parse

SpecNlp == InitNlp /\ [][NextNlp]_vars

(***************************************************************************)
(* The parser on messages that name colours: up to MaxColors words joined  *)
(* by " and ", before an optional noun.                                    *)
(***************************************************************************)
ColorWords ==
  {knownColors[k] : k \in 1..Len(knownColors)} \cup {"Navy", "RED", "teal"}

RECURSIVE ColorPhrases(_)
ColorPhrases(n) ==
  IF n = 0 THEN {""}
  ELSE ColorPhrases(n - 1)
         \cup {IF s = "" THEN w ELSE s \o " and " \o w : s \in ColorPhrases(n - 1), w \in ColorWords}

ColorInputs == {s \o tail : s \in ColorPhrases(MaxColors), tail \in {"", " jacket"}}

InitColors ==
  /\ input \in ColorInputs
  /\ parsed = NotParsed
  /\ CatalogIdle
  /\ OutfitIdle
  /\ PricingIdle
  /\ ChatIdle
  /\ PageIdle

SpecNlpColors == InitColors /\ [][NextNlp]_vars

(***************************************************************************)
(* The parser on long messages: a run of letters that spells no keyword    *)
(* and an optional keyword phrase behind it, together of a length within   *)
(* LengthSlack of the fallback limit, between optional white space.        *)
(***************************************************************************)
RECURSIVE Repeat(_, _)
Repeat(s, n) ==
  IF n = 0 THEN ""
  ELSE IF n = 1 THEN s
  ELSE Repeat(s, n \div 2) \o Repeat(s, n - (n \div 2))

Nonsense(n) == SubSeq(Repeat("Qz", n), 1, n)

LongInputs ==
  {lead \o Nonsense(n - Len(word)) \o word \o trail :
     lead \in {"", "  "},
     n \in (MaxFallbackLength - LengthSlack)..(MaxFallbackLength + LengthSlack),
     word \in {"", " red", " jeans", " bag", " slim under 500"},
     trail \in {"", " "}}

InitLong ==
  /\ input \in LongInputs
  /\ parsed = NotParsed
  /\ CatalogIdle
  /\ OutfitIdle
  /\ PricingIdle
  /\ ChatIdle
  /\ PageIdle

SpecNlpLong == InitLong /\ [][NextNlp]_vars

(***************************************************************************)
(* The parser on messages made of keywords: up to MaxKeywords of the type  *)
(* synonyms and style words, separated by a space.                         *)
(***************************************************************************)
Synonyms ==
  UNION {{typeSynonyms[k][2][j] : j \in 1..Len(typeSynonyms[k][2])} : k \in 1..Len(typeSynonyms)}

Keywords == Synonyms \cup {"oversized", "slim", "casual", "formal", "office", "Office", "for"}

RECURSIVE KeywordPhrases(_)
KeywordPhrases(n) ==
  IF n = 0 THEN {""}
  ELSE KeywordPhrases(n - 1)
         \cup {IF s = "" THEN w ELSE s \o " " \o w : s \in KeywordPhrases(n - 1), w \in Keywords}

InitKeywords ==
  /\ input \in KeywordPhrases(MaxKeywords)
  /\ parsed = NotParsed
  /\ CatalogIdle
  /\ OutfitIdle
  /\ PricingIdle
  /\ ChatIdle
  /\ PageIdle

SpecNlpKeywords == InitKeywords /\ [][NextNlp]_vars

(***************************************************************************)
(* utils/outfits: suggestOutfits.  Prices are in whole currency units.     *)
(***************************************************************************)
topKeywords == <<"t-shirt", "tee", "shirt", "hoodie", "top">>
bottomKeywords == <<"jeans", "pants", "trousers", "denim">>
footwearKeywords == <<"sneakers", "shoes", "footwear">>

PerCategory == 5
MaxSuggestions == 5

byKeyword(p, keywords) ==
  LET hay == ToLowerCase(p.title \o " " \o p.description \o " " \o p.category
                           \o " " \o Join(p.tags, " "))
  IN  \E k \in 1..Len(keywords) : Includes(hay, keywords[k])

\* a triple is dropped already when its total reaches the budget
atOrOverBudget(total, budget) == budget # <<>> /\ total >= budget[1]

\* typeof maxBudget === 'number' && total > maxBudget
overBudget(total, budget) == budget # <<>> /\ total > budget[1]

\* an equal total is put before the suggestions already placed
RECURSIVE InsertBeforeEqual(_, _)
InsertBeforeEqual(sorted, x) ==
  IF sorted = <<>> THEN <<x>>
  ELSE IF x.totalPrice <= Head(sorted).totalPrice THEN <<x>> \o sorted
  ELSE <<Head(sorted)>> \o InsertBeforeEqual(Tail(sorted), x)

\* Array.prototype.sort is stable: x goes behind every suggestion that does
\* not compare greater than it
RECURSIVE InsertSorted(_, _)
InsertSorted(sorted, x) ==
  IF sorted = <<>> THEN <<x>>
  ELSE IF x.totalPrice < Head(sorted).totalPrice THEN <<x>> \o sorted
  ELSE <<Head(sorted)>> \o InsertSorted(Tail(sorted), x)

RECURSIVE SortByTotalPrice(_)
SortByTotalPrice(list) ==
  IF list = <<>> THEN <<>>
  ELSE InsertSorted(SortByTotalPrice(SubSeq(list, 1, Len(list) - 1)), list[Len(list)])

Suggestion(t, b, f) ==
  [items |-> <<t, b, f>>, totalPrice |-> t.price + b.price + f.price,
   label |-> "Top + Jeans + Sneakers"]

\* the cross product over whole buckets, without slice(0, 5)
suggestOutfitsUncapped(list, budget) ==
  LET IsTop(p) == byKeyword(p, topKeywords)
      IsBottom(p) == byKeyword(p, bottomKeywords)
      IsFootwear(p) == byKeyword(p, footwearKeywords)
      tops == SelectSeq(list, IsTop)
      bottoms == SelectSeq(list, IsBottom)
      footwear == SelectSeq(list, IsFootwear)
      triples ==
        Flat([t \in 1..Len(tops) |->
          Flat([b \in 1..Len(bottoms) |->
            [f \in 1..Len(footwear) |-> Suggestion(tops[t], bottoms[b], footwear[f])]])])
      Kept(s) == ~overBudget(s.totalPrice, budget)
  IN  Slice(SortByTotalPrice(SelectSeq(triples, Kept)), MaxSuggestions)

suggestOutfits(list, budget) ==
  LET IsTop(p) == byKeyword(p, topKeywords)
      IsBottom(p) == byKeyword(p, bottomKeywords)
      IsFootwear(p) == byKeyword(p, footwearKeywords)
      tops == Slice(SelectSeq(list, IsTop), PerCategory)
      bottoms == Slice(SelectSeq(list, IsBottom), PerCategory)
      footwear == Slice(SelectSeq(list, IsFootwear), PerCategory)
      triples ==
        Flat([t \in 1..Len(tops) |->
          Flat([b \in 1..Len(bottoms) |->
            [f \in 1..Len(footwear) |-> Suggestion(tops[t], bottoms[b], footwear[f])]])])
      Kept(s) == ~overBudget(s.totalPrice, budget)
  IN  Slice(SortByTotalPrice(SelectSeq(triples, Kept)), MaxSuggestions)

(***************************************************************************)
(* The product lists suggestOutfits is called on: the first MaxProducts    *)
(* items of the wardrobe, any of them left out, in this order or reversed. *)
(***************************************************************************)
Item(id, title, category, tags, price) ==
  [id |-> id, title |-> title, description |-> "", category |-> category,
   tags |-> tags, price |-> price]

Wardrobe ==
  << Item("1", "Tee", "men's clothing", <<>>, 20),
     Item("2", "Jeans", "men's clothing", <<>>, 30),
     Item("3", "Sneakers", "", <<>>, 25),
     Item("4", "Hoodie", "", <<>>, 20),
     Item("5", "Denim Shirt", "", <<>>, 35),
     Item("6", "Runners", "Footwear", <<>>, 30),
     Item("7", "Polo", "", <<"summer", "top">>, 40),
     Item("8", "Henley Tee", "", <<>>, 10),
     Item("9", "Tank Top", "", <<>>, 22),
     Item("10", "Watch", "accessories", <<>>, 50),
     Item("11", "Cargo Pants", "", <<>>, 35) >>

MaxProducts == 10

Reverse(list) == [n \in 1..Len(list) |-> list[Len(list) + 1 - n]]

Selection(S) ==
  LET Chosen(i) == i \in S
      picked == SelectSeq([i \in 1..MaxProducts |-> i], Chosen)
  IN  [n \in 1..Len(picked) |-> Wardrobe[picked[n]]]

ProductLists ==
  {Selection(S) : S \in SUBSET (1..MaxProducts)}
    \cup {Reverse(Selection(S)) : S \in SUBSET (1..MaxProducts)}

Budgets == {<<>>, <<70>>, <<75>>, <<80>>, <<200>>}

InitOutfits ==
  /\ outfitProducts \in ProductLists
  /\ maxBudget \in Budgets
  /\ outfits = NotComposed
  /\ NlpIdle
  /\ CatalogIdle
  /\ PricingIdle
  /\ ChatIdle
  /\ PageIdle

\* Chat.handleOutfitQuery composes outfits from the products found
Compose ==
  /\ outfits = NotComposed
  /\ outfits' = <<suggestOutfits(outfitProducts, maxBudget)>>
  /\ UNCHANGED <<outfitProducts, maxBudget, nlpVars, catalogVars, pricingVars,
               chatVars, pageVars>>

NextOutfits == Compose

SpecOutfits == InitOutfits /\ [][NextOutfits]_vars

(***************************************************************************)
(* utils/pricing: the free-shipping nudge.  Totals are whole rupees.       *)
(***************************************************************************)
FREE_SHIPPING_THRESHOLD_INR == 2000
DefaultWindowInr == 250

amountUntilFreeShipping(total) ==
  IF FREE_SHIPPING_THRESHOLD_INR - total > 0 THEN FREE_SHIPPING_THRESHOLD_INR - total ELSE 0

\* windowInr = 250 unless the caller passes one
WindowOrDefault(window) == IF window = <<>> THEN DefaultWindowInr ELSE window[1]

\* the window's own edge is left out
isCloseInsideWindow(total, window) ==
  LET delta == amountUntilFreeShipping(total)
  IN  delta > 0 /\ delta < WindowOrDefault(window)

isCloseToThreshold(total, window) ==
  LET delta == amountUntilFreeShipping(total)
  IN  delta > 0 /\ delta <= WindowOrDefault(window)

TotalReach == 300

Totals ==
  (FREE_SHIPPING_THRESHOLD_INR - TotalReach)..(FREE_SHIPPING_THRESHOLD_INR + TotalReach)

Windows == {<<>>, <<0>>, <<1>>, <<250>>, <<300>>}

InitPricing ==
  /\ totalInr \in Totals \cup {0}
  /\ windowInr \in Windows
  /\ nudge = NotAsked
  /\ NlpIdle
  /\ CatalogIdle
  /\ OutfitIdle
  /\ ChatIdle
  /\ PageIdle

\* the cart view asks how far the total is from free shipping
AskNudge ==
  /\ nudge = NotAsked
  /\ nudge' = <<[delta |-> amountUntilFreeShipping(totalInr),
                 close |-> isCloseToThreshold(totalInr, windowInr)]>>
  /\ UNCHANGED <<totalInr, windowInr, nlpVars, catalogVars, outfitVars,
               chatVars, pageVars>>

NextPricing == AskNudge

SpecPricing == InitPricing /\ [][NextPricing]_vars

(***************************************************************************)
(* pages/Chat: handleSendMessage and its handlers.  A message of the       *)
(* conversation is [role, kind]; kind tells which reply it is.             *)
(***************************************************************************)
Said(role, kind) == [role |-> role, kind |-> kind]

Mentions(message, word) == Includes(ToLowerCase(message), word)

shouldHandleDiscovery(query) ==
  LET f == parseFiltersFromText(query)
  IN  \/ Truthy(f, "text")
      \/ Has(f, "maxPrice") /\ f.maxPrice # 0
      \/ Truthy(f, "color")
      \/ Truthy(f, "productType")
      \/ Has(f, "tags") /\ Len(f.tags) > 0

\* the if / else if chain of handleSendMessage
Branch(message) ==
  IF Mentions(message, "cart") \/ Mentions(message, "what's in my cart") THEN "cart"
  ELSE IF Mentions(message, "budget") \/ Mentions(message, "my budget") THEN "budget"
  ELSE IF Mentions(message, "recommend") \/ Mentions(message, "suggestion") THEN "recommendation"
  ELSE IF shouldHandleDiscovery(message) THEN "discovery"
  ELSE IF Mentions(message, "outfit") \/ Mentions(message, "full look") THEN "outfit"
  ELSE "general"

\* /₹\s?(\d{2,6})/ tried at index i
BudgetAt(s, i) ==
  IF ~StartsWithAt(s, i, "₹") THEN <<>>
  ELSE IF i + 1 <= Len(s) /\ IsSpace(Char(s, i + 1)) THEN CaptureDigits(s, i + 2)
  ELSE CaptureDigits(s, i + 1)

\* budgetMatch ? parseInt(budgetMatch[1], 10) : undefined
outfitBudget(query) ==
  LET hits == {i \in 1..Len(query) : BudgetAt(query, i) # <<>>}
  IN  IF hits = {} THEN <<>>
      ELSE <<ParseInt(BudgetAt(query, CHOOSE i \in hits : \A j \in hits : i <= j)[1], 0)>>

\* the outer catch only logs the error
outerCatchSilent(conversation) == conversation

\* the catch of handleSendMessage: the apology is appended
outerCatch(conversation) == Append(conversation, Said("assistant", "error"))

UserMessages(conversation) ==
  Cardinality({i \in 1..Len(conversation) : conversation[i].role = "user"})

\* what the user may type or dictate
ChatTexts ==
  {"", "  ", "What's in my cart?", "What's my budget?", "Show me clothing recommendations",
   "hello", "show me an outfit", "Full look please", "outfit for my cart",
   "outfit " \o Nonsense(MaxFallbackLength), Nonsense(MaxFallbackLength + 1)}

Carts == {EmptyCart, [items |-> 2, total |-> 1800], [items |-> 1, total |-> 2500]}

\* what catalogService.search may find for an outfit request
OutfitFinds == {<<>>, Selection({1, 2}), Selection({1, 2, 3})}

\* how an awaited service call may settle
Outcomes == {"fulfilled", "rejected"}

InitChat ==
  /\ inputMessage = ""
  /\ isLoading = FALSE
  /\ messages = <<Greeting>>
  /\ chatPc = "idle"
  /\ handler = "none"
  /\ sent = ""
  /\ cart \in Carts
  /\ NlpIdle
  /\ CatalogIdle
  /\ OutfitIdle
  /\ PricingIdle
  /\ PageIdle

ChatRest == <<nlpVars, catalogVars, outfitVars, pricingVars, pageVars>>

\* onChange of the input field, a quick suggestion, or the speech recognizer
Type(text) ==
  /\ inputMessage' = text
  /\ UNCHANGED <<isLoading, messages, chatPc, handler, sent, cart, ChatRest>>

\* handleSendMessage up to the choice of the branch
Send ==
  /\ Trim(inputMessage) # ""
  /\ ~isLoading
  /\ UserMessages(messages) < MaxSent
  /\ messages' = Append(messages, Said("user", "user"))
  /\ sent' = inputMessage
  /\ inputMessage' = ""
  /\ isLoading' = TRUE
  /\ handler' = Branch(inputMessage)
  /\ chatPc' = "handling"
  /\ UNCHANGED <<cart, ChatRest>>

\* handleCartQuery up to its await
HandleCart ==
  /\ chatPc = "handling" /\ handler = "cart"
  /\ IF cart.items = 0
       THEN /\ messages' = Append(messages, Said("assistant", "cartEmpty"))
            /\ chatPc' = "finally"
       ELSE /\ messages' = messages
            /\ chatPc' = "awaitCartSummary"
  /\ UNCHANGED <<inputMessage, isLoading, handler, sent, cart, ChatRest>>

\* generateCartSummary settles: the summary and the shipping nudge, or the
\* plain count of the catch block
CartSummarySettles(outcome) ==
  /\ chatPc = "awaitCartSummary"
  /\ messages' =
       IF outcome = "fulfilled"
         THEN Append(messages, Said("assistant", "cartSummary"))
                \o (IF isCloseToThreshold(cart.total, <<>>)
                      THEN <<Said("assistant", "nudge")>> ELSE <<>>)
         ELSE Append(messages, Said("assistant", "cartCount"))
  /\ chatPc' = "finally"
  /\ UNCHANGED <<inputMessage, isLoading, handler, sent, cart, ChatRest>>

HandleBudget ==
  /\ chatPc = "handling" /\ handler = "budget"
  /\ messages' = Append(messages, Said("assistant", "budget"))
  /\ chatPc' = "finally"
  /\ UNCHANGED <<inputMessage, isLoading, handler, sent, cart, ChatRest>>

\* handleRecommendationQuery up to await shopifyService.getProducts(20)
HandleRecommendation ==
  /\ chatPc = "handling" /\ handler = "recommendation"
  /\ chatPc' = "awaitProducts"
  /\ UNCHANGED <<inputMessage, isLoading, messages, handler, sent, cart, ChatRest>>

\* getProducts settles: the recommendations are asked, or the catch replies
ProductsSettle(outcome) ==
  /\ chatPc = "awaitProducts"
  /\ IF outcome = "fulfilled"
       THEN /\ messages' = messages
            /\ chatPc' = "awaitRecommendations"
       ELSE /\ messages' = Append(messages, Said("assistant", "recommendationTrouble"))
            /\ chatPc' = "finally"
  /\ UNCHANGED <<inputMessage, isLoading, handler, sent, cart, ChatRest>>

RecommendationsSettle(outcome, count) ==
  /\ chatPc = "awaitRecommendations"
  /\ messages' =
       IF outcome = "rejected" THEN Append(messages, Said("assistant", "recommendationTrouble"))
       ELSE IF count > 0 THEN Append(messages, Said("assistant", "recommendations"))
       ELSE Append(messages, Said("assistant", "noRecommendations"))
  /\ chatPc' = "finally"
  /\ UNCHANGED <<inputMessage, isLoading, handler, sent, cart, ChatRest>>

\* handleDiscoveryQuery up to await catalogService.search(filters, 10)
HandleDiscovery ==
  /\ chatPc = "handling" /\ handler = "discovery"
  /\ chatPc' = "awaitSearch"
  /\ UNCHANGED <<inputMessage, isLoading, messages, handler, sent, cart, ChatRest>>

DiscoverySettles(outcome, count) ==
  /\ chatPc = "awaitSearch"
  /\ messages' =
       IF outcome = "rejected" THEN Append(messages, Said("assistant", "searchTrouble"))
       ELSE IF count = 0 THEN Append(messages, Said("assistant", "noProducts"))
       ELSE Append(messages, Said("assistant", "options"))
  /\ chatPc' = "finally"
  /\ UNCHANGED <<inputMessage, isLoading, handler, sent, cart, ChatRest>>

\* handleOutfitQuery up to await catalogService.search(filters, 30)
HandleOutfit ==
  /\ chatPc = "handling" /\ handler = "outfit"
  /\ chatPc' = "awaitOutfitSearch"
  /\ UNCHANGED <<inputMessage, isLoading, messages, handler, sent, cart, ChatRest>>

OutfitSearchSettles(outcome, found) ==
  /\ chatPc = "awaitOutfitSearch"
  /\ messages' =
       IF outcome = "rejected" THEN Append(messages, Said("assistant", "outfitTrouble"))
       ELSE IF Len(suggestOutfits(found, outfitBudget(sent))) = 0
         THEN Append(messages, Said("assistant", "noOutfit"))
       ELSE Append(messages, Said("assistant", "outfits"))
  /\ chatPc' = "finally"
  /\ UNCHANGED <<inputMessage, isLoading, handler, sent, cart, ChatRest>>

\* the general branch up to await geminiService.chatWithAssistant
HandleGeneral ==
  /\ chatPc = "handling" /\ handler = "general"
  /\ chatPc' = "awaitChat"
  /\ UNCHANGED <<inputMessage, isLoading, messages, handler, sent, cart, ChatRest>>

ChatSettles(outcome) ==
  /\ chatPc = "awaitChat"
  /\ messages' =
       IF outcome = "fulfilled" THEN Append(messages, Said("assistant", "general"))
       ELSE outerCatch(messages)
  /\ chatPc' = "finally"
  /\ UNCHANGED <<inputMessage, isLoading, handler, sent, cart, ChatRest>>

\* finally { setIsLoading(false) }
Finally ==
  /\ chatPc = "finally"
  /\ isLoading' = FALSE
  /\ chatPc' = "idle"
  /\ UNCHANGED <<inputMessage, messages, handler, sent, cart, ChatRest>>

\* the steps the event loop takes once a message is accepted
ChatProgress ==
  \/ HandleCart
  \/ \E outcome \in Outcomes : CartSummarySettles(outcome)
  \/ HandleBudget
  \/ HandleRecommendation
  \/ \E outcome \in Outcomes : ProductsSettle(outcome)
  \/ \E outcome \in Outcomes, count \in 0..1 : RecommendationsSettle(outcome, count)
  \/ HandleDiscovery
  \/ \E outcome \in Outcomes, count \in 0..1 : DiscoverySettles(outcome, count)
  \/ HandleOutfit
  \/ \E outcome \in Outcomes, found \in OutfitFinds : OutfitSearchSettles(outcome, found)
  \/ HandleGeneral
  \/ \E outcome \in Outcomes : ChatSettles(outcome)
  \/ Finally

NextChat ==
  \/ \E text \in ChatTexts : Type(text)
  \/ Send
  \/ ChatProgress

SpecChat == InitChat /\ [][NextChat]_vars

\* an accepted message is worked on, and the calls it awaits settle
SpecChatLive == SpecChat /\ WF_vars(ChatProgress)

(***************************************************************************)
(* pages/Products: the search box, the effect on [searchQuery, products]   *)
(* and handleSearch.  A search in flight is [id, query]; latest is the     *)
(* search issued last.                                                     *)
(***************************************************************************)
\* titles the catalog holds; topProducts returns them all
PageCatalog == <<"sneakers", "socks", "shirt">>

\* what catalogService.search({ text: query }) answers
SearchResults(query) ==
  SelectSeq(PageCatalog, LAMBDA title : Includes(title, ToLowerCase(Trim(query))))

PageQueries == {"", " ", "s", "sn", "sh"}

PageSearch(id, query) == [id |-> id, query |-> query]

Issued(id, query, state) == [id |-> id, query |-> query, state |-> state]

\* handleSearch(query) up to its await, shown being the list on display
handleSearch(query, catalog, shown) ==
  IF Trim(query) # ""
    THEN /\ latest.id < MaxSearches
         /\ inFlight' = inFlight \cup {PageSearch(latest.id + 1, query)}
         /\ latest' = Issued(latest.id + 1, query, "pending")
         /\ filteredProducts' = shown
    ELSE /\ filteredProducts' = catalog
         /\ UNCHANGED <<inFlight, latest>>

\* the effect on [searchQuery, products]
SearchEffect(query, catalog, shown) ==
  IF query # ""
    THEN handleSearch(query, catalog, shown)
    ELSE /\ filteredProducts' = catalog
         /\ UNCHANGED <<inFlight, latest>>

\* the page after mount: loadProducts is awaited, and a query taken from
\* the URL has started its search
InitPage ==
  /\ searchQuery \in PageQueries
  /\ pageProducts = <<>>
  /\ filteredProducts = <<>>
  /\ loading = TRUE
  /\ IF Trim(searchQuery) # ""
       THEN /\ inFlight = {PageSearch(1, searchQuery)}
            /\ latest = Issued(1, searchQuery, "pending")
       ELSE /\ inFlight = {}
            /\ latest = NoSearch
  /\ NlpIdle
  /\ CatalogIdle
  /\ OutfitIdle
  /\ PricingIdle
  /\ ChatIdle

PageRest == <<nlpVars, catalogVars, outfitVars, pricingVars, chatVars>>

\* loadProducts after its await; a new product list re-runs the effect
ProductsLoaded(outcome) ==
  /\ loading
  /\ loading' = FALSE
  /\ IF outcome = "fulfilled"
       THEN /\ pageProducts' = PageCatalog
            /\ SearchEffect(searchQuery, PageCatalog, PageCatalog)
       ELSE UNCHANGED <<pageProducts, filteredProducts, inFlight, latest>>
  /\ UNCHANGED <<searchQuery, PageRest>>

\* onChange of the search box, then the effect
SetQuery(query) ==
  /\ query # searchQuery
  /\ searchQuery' = query
  /\ SearchEffect(query, pageProducts, filteredProducts)
  /\ UNCHANGED <<pageProducts, loading, PageRest>>

\* Enter or the search button
SubmitSearch ==
  /\ handleSearch(searchQuery, pageProducts, filteredProducts)
  /\ UNCHANGED <<searchQuery, pageProducts, loading, PageRest>>

\* handleSearch after its await
SearchSettles(search, outcome) ==
  /\ search \in inFlight
  /\ inFlight' = inFlight \ {search}
  /\ filteredProducts' =
       IF outcome = "fulfilled" THEN SearchResults(search.query) ELSE filteredProducts
  /\ latest' =
       IF search.id = latest.id THEN Issued(latest.id, latest.query, outcome) ELSE latest
  /\ UNCHANGED <<searchQuery, pageProducts, loading, PageRest>>

NextPage ==
  \/ \E outcome \in Outcomes : ProductsLoaded(outcome)
  \/ \E query \in PageQueries : SetQuery(query)
  \/ SubmitSearch
  \/ \E id \in 1..MaxSearches, query \in PageQueries, outcome \in Outcomes :
       SearchSettles(PageSearch(id, query), outcome)

SpecPage == InitPage /\ [][NextPage]_vars

Init ==
  /\ endpoints \in SUBSET EndpointNames
  /\ pc = "idle"
  /\ op = "none"
  /\ filters = <<>>
  /\ limit = 0
  /\ calls = <<>>
  /\ requests = {}
  /\ settled = <<>>
  /\ result = <<>>
  /\ NlpIdle
  /\ OutfitIdle
  /\ PricingIdle
  /\ ChatIdle
  /\ PageIdle

Next ==
  \/ \E f \in SearchFilters, n \in Limits : Search(f, n)
  \/ \E n \in Limits : TopProducts(n)
  \/ \E p \in ProviderSet : Settle(p)
  \/ Resolve

Spec == Init /\ [][Next]_vars

(***************************************************************************)
(* Properties of the fan-out and merge.                                    *)
(***************************************************************************)
Resolved == pc = "resolved"

ProviderIndex(p) == CHOOSE i \in 1..Len(Providers) : Providers[i] = p

\* the provider a product came from, read off the prefix of its id
Origin(p) ==
  IF StartsWithAt(p.id, 1, "fakestore:") THEN "fakestore"
  ELSE IF StartsWithAt(p.id, 1, "amazon:") THEN "amazon"
  ELSE IF StartsWithAt(p.id, 1, "flipkart:") THEN "flipkart"
  ELSE "shopify"

SameItem(a, b) == ToLowerCase(a.title) = ToLowerCase(b.title) /\ a.price = b.price

Failed(p) == calls[p].called /\ calls[p].state = "fulfilled" /\ calls[p].response # "ok"

Succeeded(p) == calls[p].called => (calls[p].state = "fulfilled" /\ calls[p].response = "ok")

\* the values of the providers in ps, concatenated in issue order
Concatenation(ps) ==
  Flat([i \in 1..Len(Providers) |->
          IF Providers[i] \in ps THEN calls[Providers[i]].value ELSE <<>>])

\* the deduplicated concatenation: its members are those of the concatenation
\* that no earlier member equals as an item, in the same relative order
Survivors(merged) ==
  LET Kept == {i \in 1..Len(merged) : \A j \in 1..(i - 1) : ~SameItem(merged[j], merged[i])}
      Rank(i) == Cardinality({j \in Kept : j <= i})
  IN  [k \in 1..Cardinality(Kept) |-> merged[CHOOSE i \in Kept : Rank(i) = k]]

Min(a, b) == IF a < b THEN a ELSE b

\* C1: if the request of one provider fails while the others succeed, search
\* resolves with the deduplicated concatenation of the other providers'
\* results, truncated to limit (the failed provider contributes nothing).
ProviderIsolation ==
  (Resolved /\ op = "search") =>
    \A p \in ProviderSet :
      (Failed(p) /\ \A q \in ProviderSet \ {p} : Succeeded(q)) =>
        result = Slice(Survivors(Concatenation(ProviderSet \ {p})), limit)

\* C2: the merged list follows the issue order (Shopify, FakeStore, Amazon,
\* Flipkart) whatever the order in which the calls completed, and of two equal
\* items of different providers the one of the provider issued first survives.
DeterministicMergeOrder ==
  Resolved =>
    /\ \A i, j \in 1..Len(result) :
         i < j => ProviderIndex(Origin(result[i])) <= ProviderIndex(Origin(result[j]))
    /\ \A k \in 1..Len(result) : \A q \in ProviderSet :
         ProviderIndex(q) < ProviderIndex(Origin(result[k])) =>
           \A m \in 1..Len(calls[q].value) : ~SameItem(calls[q].value[m], result[k])

\* the calls completed in an order other than the issue order, two providers
\* have products in the result and an item of a later provider was dropped
DeterministicMergeOrderWitness ==
  /\ Resolved
  /\ Len(settled) = 4
  /\ settled[1] = "flipkart"
  /\ settled[4] = "shopify"
  /\ \E i, j \in 1..Len(result) : Origin(result[i]) = "shopify" /\ Origin(result[j]) = "amazon"
  /\ \E m \in 1..Len(calls["flipkart"].value) : \E k \in 1..Len(result) :
       /\ Origin(result[k]) # "flipkart"
       /\ SameItem(calls["flipkart"].value[m], result[k])

\* C3: the result never holds two products with the same lower-cased title
\* and price, and each product it holds is the first of the concatenation with
\* that title and price; 'Denim Jeans' 79.99 followed by 'DENIM JEANS' 79.99
\* leaves one entry, the first.
FirstWinsDedup ==
  Resolved =>
    LET merged == Concatenation(ProviderSet)
    IN  /\ \A i, j \in 1..Len(result) : i # j => ~SameItem(result[i], result[j])
        /\ \A k \in 1..Len(result) :
             \E m \in 1..Len(merged) :
               /\ merged[m] = result[k]
               /\ \A n \in 1..(m - 1) : ~SameItem(merged[n], result[k])

\* Shopify returned 'Denim Jeans' and FakeStore 'DENIM JEANS' at the same
\* price; the result holds the item once, Shopify's
FirstWinsDedupWitness ==
  /\ Resolved
  /\ \E a \in 1..Len(calls["shopify"].value) : \E b \in 1..Len(calls["fakestore"].value) :
       /\ calls["shopify"].value[a].title = "Denim Jeans"
       /\ calls["fakestore"].value[b].title = "DENIM JEANS"
       /\ calls["shopify"].value[a].price = calls["fakestore"].value[b].price
       /\ \E k \in 1..Len(result) : result[k] = calls["shopify"].value[a]
       /\ \A k \in 1..Len(result) : result[k] # calls["fakestore"].value[b]
       /\ Len(result) < limit

\* C4: the result has at most limit entries and is the first min(limit, n)
\* entries of the deduplicated concatenation, in its order.
Truncation ==
  Resolved =>
    LET unique == Survivors(Concatenation(ProviderSet))
    IN  /\ Len(result) <= limit
        /\ Len(result) = Min(limit, Len(unique))
        /\ \A k \in 1..Len(result) : result[k] = unique[k]

\* a positive limit cut the deduplicated concatenation short
TruncationWitness ==
  /\ Resolved
  /\ limit > 0
  /\ Len(result) = limit
  /\ Len(Survivors(Concatenation(ProviderSet))) > limit

\* C5: an adapter whose request failed (network error, malformed response,
\* source not configured) resolves with the empty sequence.
FailureDegradesToEmpty ==
  \A p \in DOMAIN calls : Failed(p) => calls[p].value = <<>>

\* C6 as stated: a provider whose endpoint is not configured is never called,
\* no request is issued for it, and it contributes an empty list.
UnconfiguredNeverCalled ==
  \A p \in DOMAIN calls : p \in EndpointNames \ endpoints =>
    /\ ~calls[p].called
    /\ \A r \in requests : r.to # p
    /\ calls[p].value = <<>>

\* C6 amended: Amazon and Flipkart are not called when their endpoint is not
\* configured (no request, an already fulfilled empty list, not a failure) and
\* are called when it is; Shopify and FakeStore are called in every round.
DisabledSecondarySkipped ==
  \A p \in DOMAIN calls :
    /\ p \in {"amazon", "flipkart"} \ endpoints =>
         /\ ~calls[p].called
         /\ \A r \in requests : r.to # p
         /\ calls[p].state = "fulfilled"
         /\ calls[p].response = "none"
         /\ calls[p].value = <<>>
         /\ \A i \in 1..Len(settled) : settled[i] # p
    /\ p \in ({"amazon", "flipkart"} \cap endpoints) \cup {"shopify", "fakestore"} =>
         /\ calls[p].called
         /\ \E r \in requests : r.to = p

\* Amazon is not configured, Shopify is not either yet was called, and the
\* round resolved with products of the providers that were called
DisabledSecondarySkippedWitness ==
  /\ Resolved
  /\ endpoints = {"flipkart"}
  /\ ~calls["amazon"].called
  /\ calls["shopify"].called
  /\ \E k \in 1..Len(result) : Origin(result[k]) = "flipkart"

NoConstraint(f) ==
  /\ Has(f, "text") => \A i \in 1..Len(f.text) : IsSpace(Char(f.text, i))
  /\ Has(f, "productType") => f.productType = ""
  /\ Has(f, "color") => f.color = ""
  /\ Has(f, "tags") => f.tags = <<>>
  /\ ~Has(f, "maxPrice")

\* C7: when the filters hold no constraint searchWithFilters issues no search
\* query and returns what getProducts(limit) returns (the listing, or nothing
\* when the listing fails); with a constraint it issues the search query.
PrimaryFallback ==
  op = "search" =>
    LET call == calls["shopify"]
    IN  IF NoConstraint(filters)
          THEN /\ call.request = [to |-> "shopify", query |-> "getProducts", first |-> limit]
               /\ \A r \in requests : r.to = "shopify" => r.query = "getProducts"
               /\ call.state = "fulfilled" =>
                    IF call.response = "ok"
                      THEN \E l \in ShopifyListings :
                             /\ Len(call.value) = Min(limit, Len(l))
                             /\ \A i \in 1..Len(call.value) : call.value[i].id = l[i].id
                      ELSE call.value = <<>>
          ELSE /\ call.request.query = "searchProducts"
               /\ call.request.first = limit
               /\ call.request.q # ""

\* a search whose only filter is a blank text was answered by the listing
PrimaryFallbackWitness ==
  /\ op = "search"
  /\ Has(filters, "text") /\ filters.text = "  "
  /\ calls["shopify"].state = "fulfilled"
  /\ calls["shopify"].response = "ok"
  /\ calls["shopify"].request.query = "getProducts"
  /\ Len(calls["shopify"].value) > 1

HasVendorTag(p, name) == \E i \in 1..Len(p.tags) : p.tags[i] = "vendor:" \o name

\* C8 as stated: every product an adapter returns, and so every product of
\* the result, carries the tag vendor:<provider> of the provider it came from.
ProvenanceMarker ==
  /\ \A p \in DOMAIN calls : \A i \in 1..Len(calls[p].value) : HasVendorTag(calls[p].value[i], p)
  /\ \A k \in 1..Len(result) : HasVendorTag(result[k], Origin(result[k]))

\* C8 amended: every product the FakeStore, Amazon and Flipkart adapters
\* return, and every product of the result that came from one of them,
\* carries the tag vendor:<provider>.
SecondaryProvenanceMarker ==
  /\ \A p \in DOMAIN calls \ {"shopify"} :
       \A i \in 1..Len(calls[p].value) : HasVendorTag(calls[p].value[i], p)
  /\ \A k \in 1..Len(result) :
       Origin(result[k]) # "shopify" => HasVendorTag(result[k], Origin(result[k]))

\* the result holds a FakeStore product and an Amazon product
SecondaryProvenanceMarkerWitness ==
  /\ Resolved
  /\ \E i, j \in 1..Len(result) :
       Origin(result[i]) = "fakestore" /\ Origin(result[j]) = "amazon"

(***************************************************************************)
(* Properties of the parser.                                               *)
(***************************************************************************)
IsRupee(c) == c = "₹"

\* a price trigger starts at index i of t and its digits start at index d:
\* under, below, less than or <, then white space with at most one ₹ in it,
\* or ₹ and then white space; at least two digits follow
TriggerAt(t, i, d) ==
  LET GapFrom(a, rupees) ==
        /\ a <= d
        /\ \A j \in a..(d - 1) : IsSpace(Char(t, j)) \/ IsRupee(Char(t, j))
        /\ Cardinality({j \in a..(d - 1) : IsRupee(Char(t, j))}) <= rupees
  IN  /\ d + 1 <= Len(t)
      /\ IsDigit(Char(t, d)) /\ IsDigit(Char(t, d + 1))
      /\ \/ \E kw \in {"under", "below", "less than", "<"} :
              StartsWithAt(t, i, kw) /\ GapFrom(i + Len(kw), 1)
         \/ IsRupee(Char(t, i)) /\ GapFrom(i + 1, 0)

TriggerStarts(t) == {i \in 1..Len(t) : Char(t, i) \in {"u", "b", "l", "<", "₹"}}

DigitStarts(t) == {d \in 2..Len(t) : IsDigit(Char(t, d)) /\ ~IsDigit(Char(t, d - 1))}

RECURSIVE DecimalValue(_)
DecimalValue(s) ==
  IF s = "" THEN 0
  ELSE 10 * DecimalValue(SubSeq(s, 1, Len(s) - 1)) + DigitValue(Char(s, Len(s)))

\* the value of the digits at d: all of the run, or its first six
ValueAt(t, d) ==
  LET last == CHOOSE e \in (d + 1)..Min(d + 5, Len(t)) :
                /\ \A j \in d..e : IsDigit(Char(t, j))
                /\ e = Min(d + 5, Len(t)) \/ ~IsDigit(Char(t, e + 1))
  IN  DecimalValue(SubSeq(t, d, last))

\* C10: maxPrice is set exactly when the lower-cased input holds a price
\* trigger (under, below, less than, < or ₹) followed by at least two digits,
\* and is then the value of the digits (at most six) of the leftmost trigger;
\* "jeans under 800" gives 800 and jeans, "₹500 shoes" gives 500 and shoes.
PriceExtraction ==
  parsed # NotParsed =>
    LET t == ToLowerCase(input)
        r == parsed[1]
        Spots == {s \in TriggerStarts(t) \X DigitStarts(t) : TriggerAt(t, s[1], s[2])}
    IN  /\ Has(r, "maxPrice") <=> Spots # {}
        /\ Spots # {} =>
             \E s \in Spots : (\A o \in Spots : s[1] <= o[1]) /\ r.maxPrice = ValueAt(t, s[2])
        /\ input = "jeans under 800" =>
             Has(r, "productType") /\ r.maxPrice = 800 /\ r.productType = "jeans"
        /\ input = "₹500 shoes" =>
             Has(r, "productType") /\ r.maxPrice = 500 /\ r.productType = "shoes"

\* an input with two priced triggers was parsed and the left one gave maxPrice
PriceExtractionWitness ==
  /\ input = "<50₹800"
  /\ parsed # NotParsed
  /\ Has(parsed[1], "maxPrice")
  /\ parsed[1].maxPrice = 50

\* the colour names in the order the scan is specified to take
ScanOrder ==
  <<"black", "white", "blue", "red", "green", "yellow", "brown", "gray", "grey",
    "purple", "pink", "beige", "navy">>

Occurs(t, w) == \E i \in 1..Len(t) : i + Len(w) - 1 <= Len(t) /\ SubSeq(t, i, i + Len(w) - 1) = w

\* C11 as stated: parsing "red and blue jacket" gives the colour red although
\* blue also appears in the input.
RedBeforeBlue ==
  (input = "red and blue jacket" /\ parsed # NotParsed) =>
    Has(parsed[1], "color") /\ parsed[1].color = "red"

\* C11 amended: parsing "red and blue jacket" gives the colour blue, the
\* earlier of the two names in the scan order, although red comes first in
\* the input.
BlueBeforeRed ==
  (input = "red and blue jacket" /\ parsed # NotParsed) =>
    Has(parsed[1], "color") /\ parsed[1].color = "blue"

\* "red and blue jacket" was parsed and a colour was set
BlueBeforeRedWitness ==
  /\ input = "red and blue jacket"
  /\ parsed # NotParsed
  /\ Has(parsed[1], "color")

\* C20: color is the first name of the list black, white, blue, red, green,
\* yellow, brown, gray, grey, purple, pink, beige, navy that occurs as a
\* substring of the lower-cased input, wherever the colour words stand in
\* the text; color is absent exactly when no listed name occurs.
ColorPrecedence ==
  parsed # NotParsed =>
    LET t == ToLowerCase(input)
        r == parsed[1]
        Listed == {k \in 1..Len(ScanOrder) : Occurs(t, ScanOrder[k])}
    IN  /\ Has(r, "color") <=> Listed # {}
        /\ Listed # {} =>
             \E k \in Listed : (\A j \in Listed : k <= j) /\ r.color = ScanOrder[k]

\* two listed colours occur, the later-listed one earlier in the text, and
\* the earlier-listed one was chosen
ColorPrecedenceWitness ==
  /\ input = "navy and RED jacket"
  /\ parsed # NotParsed
  /\ Has(parsed[1], "color")
  /\ parsed[1].color = "red"

LeadingSpaces(s) ==
  CHOOSE a \in 0..Len(s) :
    /\ \A i \in 1..a : IsSpace(Char(s, i))
    /\ a = Len(s) \/ ~IsSpace(Char(s, a + 1))

TrailingSpaces(s) ==
  CHOOSE b \in 0..Len(s) :
    /\ \A i \in (Len(s) - b + 1)..Len(s) : IsSpace(Char(s, i))
    /\ b = Len(s) \/ ~IsSpace(Char(s, Len(s) - b))

\* s without the white space around it
Trimmed(s) ==
  IF LeadingSpaces(s) = Len(s) THEN ""
  ELSE SubSeq(s, LeadingSpaces(s) + 1, Len(s) - TrailingSpaces(s))

\* C12: when no product type is matched, text is the trimmed raw input (in
\* its own letter case) if and only if the trimmed input has at most 80
\* characters; a keyword-free input of 81 characters has neither text nor
\* productType, one of 79 or of exactly 80 characters has the trimmed input
\* as text.
FallbackLengthPolicy ==
  parsed # NotParsed =>
    LET r == parsed[1]
        t == Trimmed(input)
    IN  /\ ~Has(r, "productType") =>
             IF Len(t) <= 80 THEN Has(r, "text") /\ r.text = t ELSE ~Has(r, "text")
        /\ \A n \in {79, 80, 81} :
             t = Nonsense(n) =>
               /\ ~Has(r, "productType")
               /\ IF n = 81 THEN ~Has(r, "text") ELSE Has(r, "text") /\ r.text = t

\* an input of exactly 80 characters between white space was parsed: its
\* text is the trimmed input, capitals kept
FallbackLengthPolicyWitness ==
  /\ parsed # NotParsed
  /\ input # Trimmed(input)
  /\ Len(Trimmed(input)) = 80
  /\ ~Has(parsed[1], "productType")
  /\ Has(parsed[1], "text")
  /\ parsed[1].text = Trimmed(input)
  /\ parsed[1].text # ToLowerCase(parsed[1].text)

(***************************************************************************)
(* Properties of the outfit composer.                                      *)
(***************************************************************************)
Composed == outfits # NotComposed

\* the positions in the list of the first five products of a category
Bucket(keywords) ==
  LET All == {i \in 1..Len(outfitProducts) : byKeyword(outfitProducts[i], keywords)}
  IN  {i \in All : Cardinality({j \in All : j < i}) < 5}

\* the triples of positions (top, bottom, footwear) the cross product forms
CrossProduct ==
  Bucket(<<"t-shirt", "tee", "shirt", "hoodie", "top">>)
    \X Bucket(<<"jeans", "pants", "trousers", "denim">>)
    \X Bucket(<<"sneakers", "shoes", "footwear">>)

TotalOf(tr) ==
  outfitProducts[tr[1]].price + outfitProducts[tr[2]].price + outfitProducts[tr[3]].price

\* the triples that are not discarded for their price
Surviving ==
  {tr \in CrossProduct : maxBudget = <<>> \/ TotalOf(tr) <= maxBudget[1]}

\* C13: every suggestion's totalPrice is the sum of its three items' prices
\* and, when a budget is given, is at most the budget; a triple is discarded
\* for its price only when its sum exceeds the budget (one that equals it
\* is kept, and without a budget none is discarded).  A top of 20, a bottom
\* of 30 and footwear of 25 give no suggestion under budget 70 and exactly
\* one, of totalPrice 75, under budget 80.
OutfitBudgetFilter ==
  Composed =>
    LET list == outfits[1]
    IN  /\ \A n \in 1..Len(list) :
             /\ Len(list[n].items) = 3
             /\ list[n].totalPrice
                  = list[n].items[1].price + list[n].items[2].price + list[n].items[3].price
             /\ maxBudget # <<>> => list[n].totalPrice <= maxBudget[1]
        /\ Len(list) = Min(5, Cardinality(Surviving))
        /\ \A tr \in Surviving :
             Cardinality(Surviving) <= 5 =>
               \E n \in 1..Len(list) :
                 list[n].items = <<outfitProducts[tr[1]], outfitProducts[tr[2]],
                                   outfitProducts[tr[3]]>>
        /\ (Len(outfitProducts) = 3 /\ Cardinality(CrossProduct) = 1
              /\ \E tr \in CrossProduct :
                   /\ outfitProducts[tr[1]].price = 20
                   /\ outfitProducts[tr[2]].price = 30
                   /\ outfitProducts[tr[3]].price = 25) =>
             /\ maxBudget = <<70>> => list = <<>>
             /\ maxBudget = <<80>> => Len(list) = 1 /\ list[1].totalPrice = 75

\* a triple whose sum equals the budget was kept while a dearer one was
\* discarded
OutfitBudgetFilterWitness ==
  /\ Composed
  /\ maxBudget # <<>>
  /\ \E n \in 1..Len(outfits[1]) : outfits[1][n].totalPrice = maxBudget[1]
  /\ \E tr \in CrossProduct : TotalOf(tr) > maxBudget[1]

\* tr comes before other in the ranking: a lower total, or the same total
\* and generated earlier (top-major, then bottom, then footwear)
RankedBefore(tr, other) ==
  \/ TotalOf(tr) < TotalOf(other)
  \/ /\ TotalOf(tr) = TotalOf(other)
     /\ \/ tr[1] < other[1]
        \/ tr[1] = other[1] /\ tr[2] < other[2]
        \/ tr[1] = other[1] /\ tr[2] = other[2] /\ tr[3] < other[3]

RankOf(tr) == 1 + Cardinality({other \in Surviving : RankedBefore(other, tr)})

\* C14: at most 5 suggestions are returned, in ascending order of
\* totalPrice; they are the first 5 of the surviving triples sorted by
\* totalPrice, triples of equal totalPrice in the order the cross product
\* generated them (top-major, then bottom, then footwear).
OutfitRanking ==
  Composed =>
    LET list == outfits[1]
    IN  /\ Len(list) <= 5
        /\ \A n \in 1..(Len(list) - 1) : list[n].totalPrice <= list[n + 1].totalPrice
        /\ Len(list) = Min(5, Cardinality(Surviving))
        /\ \A tr \in Surviving :
             RankOf(tr) <= 5 =>
               list[RankOf(tr)].items = <<outfitProducts[tr[1]], outfitProducts[tr[2]],
                                          outfitProducts[tr[3]]>>

\* more than five triples survived and two of the returned suggestions,
\* with different tops, have the same total
OutfitRankingWitness ==
  /\ Composed
  /\ Cardinality(Surviving) > 5
  /\ Len(outfits[1]) = 5
  /\ \E n \in 1..4 :
       /\ outfits[1][n].totalPrice = outfits[1][n + 1].totalPrice
       /\ outfits[1][n].items[1] # outfits[1][n + 1].items[1]

(***************************************************************************)
(* Properties of the shipping nudge.                                       *)
(***************************************************************************)
\* C15: the amount until free shipping is max(0, 2000 - total), never
\* negative, and the total is close to the threshold exactly when
\* 0 < amount <= window, the window being 250 when omitted; so 1800 is
\* close, 1749 is not, 1750 is, and no total of 2000 or more is.
ShippingNudgeBoundary ==
  nudge # NotAsked =>
    LET delta == nudge[1].delta
        close == nudge[1].close
        window == IF windowInr = <<>> THEN 250 ELSE windowInr[1]
    IN  /\ delta >= 0
        /\ totalInr <= 2000 => delta = 2000 - totalInr
        /\ totalInr >= 2000 => delta = 0
        /\ close <=> (0 < delta /\ delta <= window)
        /\ (windowInr = <<>> /\ totalInr \in {1800, 1750}) => close
        /\ (windowInr = <<>> /\ totalInr = 1749) => ~close
        /\ totalInr >= 2000 => ~close

\* the total 1750, exactly the default window away, was found close
ShippingNudgeBoundaryWitness ==
  /\ nudge # NotAsked
  /\ totalInr = 1750
  /\ windowInr = <<>>
  /\ nudge[1].delta = 250
  /\ nudge[1].close

(***************************************************************************)
(* Properties of the fan-out: what is launched, and when it is awaited.    *)
(***************************************************************************)
Called == {p \in ProviderSet : pc # "idle" /\ calls[p].called}

\* C16: every provider call of the round is issued before any result is
\* awaited, and search does not resolve before every issued call has
\* settled; with no timeout or cancellation it can resolve exactly when the
\* last call has settled.
LaunchAllAwaitAll ==
  /\ pc # "idle" => \A p \in Called : calls[p].request \in requests
  /\ Resolved => \A p \in Called : calls[p].state = "fulfilled"
  /\ pc = "awaiting" => (ENABLED AwaitAll <=> \A p \in Called : calls[p].state = "fulfilled")

\* four calls were launched, the primary's settled last and search resolved
LaunchAllAwaitAllWitness ==
  /\ Resolved
  /\ op = "search"
  /\ Called = ProviderSet
  /\ Len(settled) = 4
  /\ settled[4] = "shopify"

\* C17: search calls the primary adapter with the full limit and each
\* enabled secondary adapter with ceil(limit/2), all with the filters of the
\* round; topProducts uses the same sizes, the secondaries with empty
\* filters.
FanOutRequestSizes ==
  pc # "idle" =>
    /\ "shopify" \in Called /\ calls["shopify"].limit = limit
    /\ \A p \in Called \ {"shopify"} :
         /\ 2 * calls[p].limit >= limit
         /\ 2 * (calls[p].limit - 1) < limit
         /\ calls[p].filters = IF op = "search" THEN filters ELSE <<>>
    /\ op = "search" => calls["shopify"].filters = filters

\* an odd limit: the primary was asked for 3 and three secondaries for 2
FanOutRequestSizesWitness ==
  /\ op = "search"
  /\ limit = 3
  /\ Called = ProviderSet
  /\ calls["shopify"].limit = 3
  /\ \A p \in ProviderSet \ {"shopify"} : calls[p].limit = 2 /\ calls[p].filters = filters

(***************************************************************************)
(* Properties of the adapters' results.                                    *)
(***************************************************************************)
Answered == {p \in Called : calls[p].state = "fulfilled"}

WithinPrice(product, f) == Has(f, "maxPrice") => product.price <= f.maxPrice * PriceScale

\* the maximal runs of characters other than white space in t
TokensOf(t) ==
  {SubSeq(t, x[1], x[2]) :
     x \in {y \in (1..Len(t)) \X (1..Len(t)) :
              /\ y[1] <= y[2]
              /\ \A k \in y[1]..y[2] : ~IsSpace(Char(t, k))
              /\ y[1] = 1 \/ IsSpace(Char(t, y[1] - 1))
              /\ y[2] = Len(t) \/ IsSpace(Char(t, y[2] + 1))}}

\* every token of the filter's text occurs in title, description or category
MatchesText(product, f) ==
  Truthy(f, "text") =>
    \A tok \in TokensOf(ToLowerCase(f.text)) :
      \/ Occurs(ToLowerCase(product.title), tok)
      \/ Occurs(ToLowerCase(product.description), tok)
      \/ Occurs(ToLowerCase(product.category), tok)

\* C18 as stated: for every adapter and every filter, every product of the
\* adapter's result has price <= maxPrice when maxPrice is set, and holds
\* every white-space separated token of the text in its title, description
\* or category when text is set.
AdapterResultsRespectFilters ==
  \A p \in Answered :
    \A i \in 1..Len(calls[p].value) :
      /\ WithinPrice(calls[p].value[i], calls[p].filters)
      /\ MatchesText(calls[p].value[i], calls[p].filters)

\* C18 amended: every product of the FakeStore adapter's result has
\* price <= maxPrice when maxPrice is set, and holds every white-space
\* separated token of the text in its title, description or category when
\* text is set; the other adapters return what their source answered.
FakeStoreRespectsFilters ==
  "fakestore" \in Answered =>
    \A i \in 1..Len(calls["fakestore"].value) :
      /\ WithinPrice(calls["fakestore"].value[i], calls["fakestore"].filters)
      /\ MatchesText(calls["fakestore"].value[i], calls["fakestore"].filters)

\* FakeStore answered a search with a text and a price ceiling, and its
\* adapter returned some but not all of the items of the source
FakeStoreRespectsFiltersWitness ==
  /\ "fakestore" \in Answered
  /\ calls["fakestore"].response = "ok"
  /\ Truthy(calls["fakestore"].filters, "text")
  /\ Has(calls["fakestore"].filters, "maxPrice")
  /\ calls["fakestore"].limit >= 2
  /\ Len(calls["fakestore"].value) = 1
  /\ \E i \in 1..Len(FakeStoreItems) :
       /\ FakeStoreItems[i].price > calls["fakestore"].filters.maxPrice * PriceScale
       /\ Occurs(ToLowerCase(FakeStoreItems[i].title), ToLowerCase(calls["fakestore"].filters.text))

\* C19: for every adapter, every filter and every limit >= 0, the adapter's
\* search returns at most limit products, whether its request succeeded or
\* failed.
AdapterResultSize ==
  \A p \in Answered : Len(calls[p].value) <= calls[p].limit

(***************************************************************************)
(* Properties of the parser: product type, style tags, free text.          *)
(***************************************************************************)
\* the canonical types in the insertion order of the table
TypeOrder == <<"t-shirt", "hoodie", "jeans", "shoes", "bag", "laptop">>

SynonymsOf(canonical) ==
  LET k == CHOOSE n \in 1..Len(typeSynonyms) : typeSynonyms[n][1] = canonical
  IN  {typeSynonyms[k][2][j] : j \in 1..Len(typeSynonyms[k][2])}

\* C21: productType is the first canonical type, in the order t-shirt,
\* hoodie, jeans, shoes, bag, laptop, one of whose synonyms occurs as a
\* substring of the lower-cased input; it is absent exactly when no synonym
\* of any canonical type occurs.
TypePrecedence ==
  parsed # NotParsed =>
    LET t == ToLowerCase(input)
        r == parsed[1]
        Hit == {k \in 1..Len(TypeOrder) : \E syn \in SynonymsOf(TypeOrder[k]) : Occurs(t, syn)}
    IN  /\ Has(r, "productType") <=> Hit # {}
        /\ Hit # {} =>
             \E k \in Hit : (\A j \in Hit : k <= j) /\ r.productType = TypeOrder[k]

\* a bag word and then a jeans word: jeans, earlier in the table, was chosen
TypePrecedenceWitness ==
  /\ input = "purse pants"
  /\ parsed # NotParsed
  /\ Has(parsed[1], "productType")
  /\ parsed[1].productType = "jeans"

\* C26: for every canonical type c and every synonym s listed for c,
\* parsing s alone gives productType c ('sweatshirt' gives hoodie, 'laptop'
\* and 'gaming laptop' give laptop).
SynonymsMapToOwnType ==
  parsed # NotParsed =>
    \A k \in 1..Len(TypeOrder) :
      input \in SynonymsOf(TypeOrder[k]) =>
        Has(parsed[1], "productType") /\ parsed[1].productType = TypeOrder[k]

\* the style keywords in their fixed order
TagOrder == <<"oversized", "slim", "casual", "formal">>

\* C22: the tags are a duplicate-free subsequence of (oversized, slim,
\* casual, formal), so at most 4; each keyword is in the tags exactly when
\* it occurs in the lower-cased input, formal when formal or office occurs.
StyleTagsInOrder ==
  parsed # NotParsed =>
    LET t == ToLowerCase(input)
        tags == parsed[1].tags
        Place(i) == CHOOSE k \in 1..Len(TagOrder) : TagOrder[k] = tags[i]
    IN  /\ Has(parsed[1], "tags")
        /\ Len(tags) <= 4
        /\ \A i \in 1..Len(tags) : \E k \in 1..Len(TagOrder) : TagOrder[k] = tags[i]
        /\ \A i \in 1..Len(tags), j \in 1..Len(tags) : i < j => Place(i) < Place(j)
        /\ \A k \in 1..Len(TagOrder) :
             (\E i \in 1..Len(tags) : tags[i] = TagOrder[k])
               <=> \/ Occurs(t, TagOrder[k])
                   \/ TagOrder[k] = "formal" /\ Occurs(t, "office")

\* office stands before slim in the message: slim, then formal
StyleTagsInOrderWitness ==
  /\ input = "Office slim"
  /\ parsed # NotParsed
  /\ parsed[1].tags = <<"slim", "formal">>

\* C25: text is set if and only if no product type was matched and the
\* trimmed input has at most 80 characters, and then it is the trimmed raw
\* input, also when a price, a colour or tags were extracted; text and
\* productType are never both present, and text is never a join of residual
\* category words.
FreeTextInvariant ==
  parsed # NotParsed =>
    LET r == parsed[1]
        t == Trimmed(input)
    IN  /\ Has(r, "text") <=> (~Has(r, "productType") /\ Len(t) <= 80)
        /\ Has(r, "text") => r.text = t
        /\ ~(Has(r, "text") /\ Has(r, "productType"))

\* a message of exactly 80 characters between white space, with a tag and
\* a price in it, was parsed: its text is the message as typed
FreeTextInvariantWitness ==
  /\ parsed # NotParsed
  /\ input # Trimmed(input)
  /\ Len(Trimmed(input)) = 80
  /\ Has(parsed[1], "maxPrice")
  /\ parsed[1].tags # <<>>
  /\ ~Has(parsed[1], "productType")
  /\ Has(parsed[1], "text")
  /\ parsed[1].text = Trimmed(input)

(***************************************************************************)
(* Properties of the outfit composer: the structure of a suggestion.       *)
(***************************************************************************)
TopBucket == Bucket(<<"t-shirt", "tee", "shirt", "hoodie", "top">>)
BottomBucket == Bucket(<<"jeans", "pants", "trousers", "denim">>)
FootwearBucket == Bucket(<<"sneakers", "shoes", "footwear">>)

\* C23: every suggestion holds exactly three items, a top among the first 5
\* products matching a top keyword, a bottom among the first 5 matching a
\* bottom keyword and footwear among the first 5 matching a footwear
\* keyword, in this order; at most 125 triples are formed, a product 6th or
\* later in its bucket never fills that role, and an empty bucket gives an
\* empty result.
OutfitStructure ==
  Composed =>
    /\ \A n \in 1..Len(outfits[1]) :
         /\ Len(outfits[1][n].items) = 3
         /\ \E i \in TopBucket : outfits[1][n].items[1] = outfitProducts[i]
         /\ \E i \in BottomBucket : outfits[1][n].items[2] = outfitProducts[i]
         /\ \E i \in FootwearBucket : outfits[1][n].items[3] = outfitProducts[i]
    /\ Cardinality(CrossProduct) <= 125
    /\ (TopBucket = {} \/ BottomBucket = {} \/ FootwearBucket = {}) => outfits[1] = <<>>

\* six products of the list match a top keyword and outfits were suggested
OutfitStructureWitness ==
  /\ Composed
  /\ Cardinality({i \in 1..Len(outfitProducts) :
                    byKeyword(outfitProducts[i], <<"t-shirt", "tee", "shirt", "hoodie", "top">>)}) > 5
  /\ Cardinality(TopBucket) = 5
  /\ Len(outfits[1]) = 5

\* C24: in every suggestion the top, the bottom and the footwear are three
\* pairwise distinct products of the list; no product fills two roles of
\* one outfit.
OutfitItemsDistinct ==
  Composed =>
    \A n \in 1..Len(outfits[1]) :
      /\ outfits[1][n].items[1] # outfits[1][n].items[2]
      /\ outfits[1][n].items[1] # outfits[1][n].items[3]
      /\ outfits[1][n].items[2] # outfits[1][n].items[3]

(***************************************************************************)
(* Properties of the chat.                                                 *)
(***************************************************************************)
Accepted == chatPc # "idle"

\* C27: every accepted message that contains 'outfit' or 'full look' and
\* none of 'cart', 'budget', 'recommend', 'suggestion' is handled by
\* handleOutfitQuery, not by the discovery handler or the general reply.
OutfitRequestsReachOutfitHandler ==
  Accepted =>
    LET m == ToLowerCase(sent)
    IN  ((Occurs(m, "outfit") \/ Occurs(m, "full look"))
          /\ ~Occurs(m, "cart") /\ ~Occurs(m, "budget")
          /\ ~Occurs(m, "recommend") /\ ~Occurs(m, "suggestion"))
        => handler = "outfit"

\* an assistant message stands behind the last user message
Replied ==
  \E i \in 1..Len(messages) :
    /\ messages[i].role = "assistant"
    /\ \A j \in 1..Len(messages) : messages[j].role = "user" => j < i

\* C29: every accepted message is followed by at least one assistant
\* message and isLoading returns to false, whichever branch handles it and
\* however the awaited calls settle; no message is accepted while isLoading
\* is true.
EveryMessageGetsReply ==
  /\ isLoading ~> (~isLoading /\ Replied)
  /\ [][isLoading => UserMessages(messages') = UserMessages(messages)]_vars
  /\ [](~isLoading => Replied \/ UserMessages(messages) = 0)

\* the general branch took a message, the assistant call was rejected, and
\* the apology was appended before isLoading went back to false
EveryMessageGetsReplyWitness ==
  /\ handler = "general"
  /\ UserMessages(messages) = 1
  /\ ~isLoading
  /\ messages[Len(messages)] = Said("assistant", "error")

(***************************************************************************)
(* Properties of the Products page.                                        *)
(***************************************************************************)
\* C28: once every search has completed, the list on display is the result
\* of the query issued last, never the result of an earlier query.
LatestSearchWins ==
  (/\ inFlight = {}
   /\ ~loading
   /\ latest.state = "fulfilled"
   /\ searchQuery = latest.query)
  => filteredProducts = SearchResults(latest.query)

(***************************************************************************)
(* Properties of the FakeStore category.                                   *)
(***************************************************************************)
\* what fakeStoreSearch hands to normalizeCategory
CategoryInput(f) ==
  IF Truthy(f, "productType") THEN f.productType
  ELSE IF Truthy(f, "text") THEN f.text ELSE ""

\* C30: a FakeStore request whose product type or text mentions 'women' is
\* sent to the women's clothing category endpoint.
WomenServedFromWomensCategory ==
  \A p \in DOMAIN calls :
    (/\ p = "fakestore"
     /\ calls[p].called
     /\ Occurs(ToLowerCase(CategoryInput(calls[p].filters)), "women")
     /\ ~Occurs(ToLowerCase(CategoryInput(calls[p].filters)), "jewel")
     /\ ~Occurs(ToLowerCase(CategoryInput(calls[p].filters)), "elect"))
    => calls[p].request.url = "/products/category/women's clothing"

====
